---- MODULE Spec2Model ----
(***************************************************************************)
(* Header recovery and document splitting (v3): HeaderValidator,           *)
(* PdfSplitter boundary detection, the per-scale OCR method loop and the   *)
(* per-document job of PDFTextExtractorV3.                                  *)
(*                                                                         *)
(* A Python str is modelled as a sequence of one-character strings, so     *)
(* that normalisation, splitting and similarity are computed character by  *)
(* character as the code computes them.                                    *)
(***************************************************************************)
EXTENDS Integers, Sequences, FiniteSets, TLC

VARIABLES
    config,         \* the ExtractionConfig the components were built with
    call,           \* the operation that produced the current outputs ("none" before)
    in_header1,        \* first header argument
    in_header2,        \* second header argument
    threshold,      \* threshold argument of headers_match, in hundredths
    ret_text,       \* text returned (normalized / corrected header)
    ret_text2,      \* text returned by the second application of _normalize
    ret_score,      \* score returned by validate_and_score
    ret_bool,       \* boolean returned
    page_headers,   \* splitter input: sequence of <<page_num, header>>
    groups_in,      \* input of a direct _apply_context_correction call
    initial_groups, \* groups after the grouping loop, before correction
    ret_groups,     \* groups returned
    total_pages,    \* process_pdf: number of pages of the source PDF
    page_num,       \* process_pdf: the page the extraction loop is at (1-based)
    pc,             \* process_pdf: position in the job
    split_results,  \* process_pdf: the output files, as <<start_page, end_page, header_text>>
    psm_idx,        \* _run_ocr_methods: index of the tesseract config the outer loop is at
    method_idx,     \* _run_ocr_methods: index of the method the inner loop is at
    attempts,       \* _run_ocr_methods: methods that returned
    invocations,    \* _run_ocr_methods: calls of a preprocessing method, returned or raised
    early_exit,     \* _run_ocr_methods: the early_exit flag
    method_results, \* _run_ocr_methods: [text, score, confidence] of each method that returned
    freq_ratio,     \* _run_ocr_methods: the returned frequency ratio, as <<frequency, len(results)>>
    headers_in,     \* list-of-headers argument (headers, candidate_headers)
    min_support,    \* resolve_code_ambiguity_by_support: the min_support argument
    ret_info,       \* record returned (inspect_code_ambiguity result, resolve metadata)
    page_quality_flags, \* quality flags of each entry of page_headers, as lists of flags
    updated_headers,    \* headers returned by the harmonize / rescue pass
    updates,            \* the updates dict returned by the harmonize / rescue pass
    rescue_pick,        \* which reading the high-scale rescue OCR returns
    rescue_calls,       \* page indices rescue_ambiguous_header was called for
    tesseract_available, \* OCRPipeline._tesseract_available
    paddle_available,    \* whether get_paddleocr_engine yields an engine
    page_inputs,         \* per page of the PDF: its direct text and what PaddleOCR reads
    csv_records,         \* the records added to the CSV reporter, one per processed page
    tesseract_text_in,      \* _run_ocr_with_paddleocr_fallback: the tesseract_text_in argument
    paddle_reading,      \* what PaddleOCR's extract_text does with the image
    engine_creation,     \* what get_paddleocr_engine meets: "engine", "import_error", "error"
    paddleocr_engine,    \* OCRPipeline._paddleocr_engine: "None" or "engine"
    fallback_ret,        \* what _run_ocr_with_paddleocr_fallback returned
    output_filenames,    \* split_pdf: the filename given to each group, in group order
    file_system,         \* _create_pdf_subset: the files of the output folder and their locks
    subset_call,         \* _create_pdf_subset: position and locals of the running call
    log_queue,           \* ExtractionLogger.queue: its items and maxsize
    stats,               \* ExtractionLogger.total_sent, total_success, total_failed, total_dropped
    producer,            \* the page-processing thread inside log_extraction
    sender,              \* the thread inside _send_to_api (the worker thread in async mode)
    shutdown_event,      \* ExtractionLogger.shutdown_event
    breaker,             \* the fields of ExtractionLogger.circuit_breaker
    breaker_call,        \* the last call made on the circuit breaker
    clock                \* time.time(), in seconds since the logger was built

vars == <<config, call, in_header1, in_header2, threshold, ret_text, ret_text2,
          ret_score, ret_bool, page_headers, groups_in, initial_groups, ret_groups,
          total_pages, page_num, pc, split_results,
          psm_idx, method_idx, attempts, invocations, early_exit, method_results, freq_ratio,
          headers_in, min_support, ret_info,
          page_quality_flags, updated_headers, updates, rescue_pick, rescue_calls,
          tesseract_available, paddle_available, page_inputs, csv_records,
          tesseract_text_in, paddle_reading, engine_creation, paddleocr_engine, fallback_ret,
          output_filenames, file_system, subset_call,
          log_queue, stats, producer, sender, shutdown_event, breaker, breaker_call, clock>>

(***************************************************************************)
(* Characters and Python str primitives                                    *)
(***************************************************************************)
Digits == {"0", "1", "2", "3", "4", "5", "6", "7", "8", "9"}

UpperLetters == {"A", "B", "C", "D", "E", "F", "G", "H", "I", "J", "K", "L", "M",
                 "N", "O", "P", "Q", "R", "S", "T", "U", "V", "W", "X", "Y", "Z"}

LowerLetters == {"b", "s", "r", "e", "u", "y"}

Whitespace == {" "}

\* str.upper() on one character
UpperChar(ch) ==
    CASE ch = "b" -> "B"
      [] ch = "s" -> "S"
      [] ch = "r" -> "R"
      [] ch = "e" -> "E"
      [] ch = "u" -> "U"
      [] ch = "y" -> "Y"
      [] OTHER -> ch

Upper(s) == [i \in 1..Len(s) |-> UpperChar(s[i])]

IsAlphaChar(ch) == ch \in UpperLetters \cup LowerLetters
IsDigitChar(ch) == ch \in Digits

\* str.isalpha(), str.isdigit(), str.isalnum(): False on the empty string
IsAlpha(s) == Len(s) > 0 /\ \A i \in 1..Len(s) : IsAlphaChar(s[i])
IsDigit(s) == Len(s) > 0 /\ \A i \in 1..Len(s) : IsDigitChar(s[i])
IsAlnum(s) == Len(s) > 0 /\ \A i \in 1..Len(s) : IsAlphaChar(s[i]) \/ IsDigitChar(s[i])

Max2(a, b) == IF a >= b THEN a ELSE b
Min2(a, b) == IF a <= b THEN a ELSE b
AbsDiff(a, b) == IF a >= b THEN a - b ELSE b - a

\* "".join(c for c in s if c.isdigit())
DigitsOf(s) == SelectSeq(s, IsDigitChar)

\* s[lo:] for a 1-based first index
Tail1(s, lo) == IF lo > Len(s) THEN <<>> ELSE SubSeq(s, lo, Len(s))

\* str.split(sep) for a one-character separator: "" -> [""], "a--b" -> ["a","","b"]
RECURSIVE SplitFrom(_, _, _, _)
SplitFrom(s, sep, i, cur) ==
    IF i > Len(s) THEN <<cur>>
    ELSE IF s[i] = sep THEN <<cur>> \o SplitFrom(s, sep, i + 1, <<>>)
    ELSE SplitFrom(s, sep, i + 1, Append(cur, s[i]))

Split(s, sep) == SplitFrom(s, sep, 1, <<>>)

\* sep.join(parts)
RECURSIVE Join(_, _)
Join(parts, sep) ==
    IF Len(parts) = 0 THEN <<>>
    ELSE IF Len(parts) = 1 THEN parts[1]
    ELSE parts[1] \o <<sep>> \o Join(Tail(parts), sep)

\* parts[:-1]
ButLast(parts) == SubSeq(parts, 1, Len(parts) - 1)
Last(parts) == parts[Len(parts)]

\* a in b (substring test)
IsSubstring(a, b) ==
    \E k \in 0..(Len(b) - Len(a)) : \A i \in 1..Len(a) : b[k + i] = a[i]

\* b.startswith(a)
StartsWith(b, a) ==
    Len(a) <= Len(b) /\ \A i \in 1..Len(a) : b[i] = a[i]

(***************************************************************************)
(* difflib.SequenceMatcher(None, a, b).ratio()                             *)
(* No junk applies: autojunk only acts on sequences of 200+ elements.      *)
(* ratio = 2 * M / T, M the total size of the matching blocks found by     *)
(* recursively taking the longest common block (earliest in a, then        *)
(* earliest in b), T = len(a) + len(b).                                    *)
(***************************************************************************)
RECURSIVE RunLen(_, _, _, _, _, _)
RunLen(a, b, i, j, ahi, bhi) ==
    IF i > ahi \/ j > bhi THEN 0
    ELSE IF a[i] # b[j] THEN 0
    ELSE 1 + RunLen(a, b, i + 1, j + 1, ahi, bhi)

SetMax(S) == CHOOSE x \in S : \A y \in S : x >= y
SetMin(S) == CHOOSE x \in S : \A y \in S : x <= y

\* find_longest_match over a[alo..ahi], b[blo..bhi] (inclusive, 1-based, both non-empty):
\* <<i, j, size>>, the longest common block; of those the one starting earliest in a,
\* and of those the one starting earliest in b
LongestRun(a, b, alo, ahi, blo, bhi) ==
    SetMax({RunLen(a, b, i, j, ahi, bhi) : i \in alo..ahi, j \in blo..bhi})

EarliestBlock(a, b, alo, ahi, blo, bhi, size) ==
    IF size = 0 THEN <<alo, blo, 0>>
    ELSE (CHOOSE p \in (alo..ahi) \X (blo..bhi) :
             /\ RunLen(a, b, p[1], p[2], ahi, bhi) = size
             /\ \A q \in (alo..ahi) \X (blo..bhi) :
                   RunLen(a, b, q[1], q[2], ahi, bhi) = size
                       => (p[1] < q[1] \/ (p[1] = q[1] /\ p[2] <= q[2])))
         \o <<size>>

find_longest_match(a, b, alo, ahi, blo, bhi) ==
    EarliestBlock(a, b, alo, ahi, blo, bhi, LongestRun(a, b, alo, ahi, blo, bhi))

\* the matching blocks left and right of the block m, plus m itself
RECURSIVE MatchTotal(_, _, _, _, _, _)
RECURSIVE MatchAround(_, _, _, _, _, _, _)
MatchAround(a, b, alo, ahi, blo, bhi, m) ==
    IF m[3] = 0 THEN 0
    ELSE m[3]
         + MatchTotal(a, b, alo, m[1] - 1, blo, m[2] - 1)
         + MatchTotal(a, b, m[1] + m[3], ahi, m[2] + m[3], bhi)

MatchTotal(a, b, alo, ahi, blo, bhi) ==
    IF alo > ahi \/ blo > bhi THEN 0
    ELSE MatchAround(a, b, alo, ahi, blo, bhi, find_longest_match(a, b, alo, ahi, blo, bhi))

\* sum of the sizes of get_matching_blocks()
MatchingSize(a, b) == MatchTotal(a, b, 1, Len(a), 1, Len(b))

\* ratio() >= num / den, for den > 0; ratio() is 1.0 when both are empty
RatioAtLeast(a, b, num, den) ==
    IF Len(a) + Len(b) = 0 THEN den >= num
    ELSE 2 * MatchingSize(a, b) * den >= num * (Len(a) + Len(b))

(***************************************************************************)
(* PdfSplitter._count_char_differences: Levenshtein distance, row by row   *)
(***************************************************************************)
RECURSIVE LevRow(_, _, _, _)
LevRow(prev, ch, s2, cur) ==
    IF Len(cur) = Len(s2) + 1 THEN cur
    ELSE LET j == Len(cur)
             v == IF ch = s2[j] THEN prev[j]
                  ELSE 1 + Min2(prev[j + 1], Min2(cur[j], prev[j]))
         IN  LevRow(prev, ch, s2, Append(cur, v))

RECURSIVE LevFrom(_, _, _, _)
LevFrom(s1, s2, i, prev) ==
    IF i > Len(s1) THEN prev[Len(s2) + 1]
    ELSE LevFrom(s1, s2, i + 1, LevRow(prev, s1[i], s2, <<i>>))

_count_char_differences(s1, s2) ==
    LevFrom(s1, s2, 1, [j \in 1..(Len(s2) + 1) |-> j - 1])

(***************************************************************************)
(* ExtractionConfig: the fields the validator and the splitter read, with  *)
(* their defaults. Ratios are kept in hundredths (0.85 is 85).             *)
(***************************************************************************)
DefaultConfig ==
    [ expected_parts |-> 4,
      min_expected_parts |-> 3,
      expected_separator |-> "-",
      expected_digit_count |-> 8,
      min_digit_count |-> 6,
      pattern_prefix_length |-> 1,
      pattern_country_min |-> 1,
      pattern_country_max |-> 2,
      pattern_serial_min |-> 7,
      pattern_serial_max |-> 10,
      pattern_serial_allowed_prefixes |-> {"S", "R"},
      serial_prefix_required |-> TRUE,
      serial_digits_exact |-> 8,
      invalid_serial_score_cap |-> 89,
      serial_close_match_threshold |-> 85,
      enable_pdf_splitting |-> TRUE,
      min_pages_per_split |-> 1,
      header_similarity_threshold |-> 100,
      enable_serial_based_matching |-> TRUE,
      enable_pattern_check |-> TRUE,
      max_ocr_attempts |-> 8,
      early_exit_score |-> 90,
      ocr_method_early_exit_min_attempts |-> 2,
      ocr_method_early_exit_min_confirmations |-> 2,
      tesseract_psm_mode |-> 7,
      tesseract_confidence_threshold |-> 85,
      adaptive_rendering |-> TRUE,
      initial_render_scale |-> 2,
      max_render_scale |-> 6,
      score_threshold_for_escalation |-> 70,
      enable_paddleocr_fallback |-> TRUE,
      enable_ensemble_voting |-> TRUE,
      enable_code_ambiguity_monitor |-> TRUE,
      code_ambiguity_pairs |-> << << <<"O">>, <<"0">> >>, << <<"I">>, <<"L">> >> >>,
      code_ambiguity_only_mixed_alnum |-> TRUE,
      code_autocorrect_min_support |-> 1,
      enable_code_anchor_harmonize |-> TRUE,
      code_anchor_harmonize_min_glyph_support |-> 1,
      enable_code_anchor_rescue_pass |-> TRUE,
      code_anchor_rescue_only_on_no_char_boxes |-> TRUE,
      ambiguous_characters |-> {<<"S", "5">>, <<"B", "8">>, <<"P", "F">>,
                                <<"O", "0">>, <<"I", "1">>, <<"Z", "2">>},
      character_whitelist |-> UpperLetters \cup Digits \cup {"-"},
      remove_special_chars |-> TRUE,
      replace_spaces_with |-> <<"_">>,
      max_filename_length |-> 100,
      api_log_async |-> TRUE,
      api_queue_size |-> 1000,
      circuit_breaker_threshold |-> 5,
      split_naming_pattern |-> << [field |-> "header"], [literal |-> <<"_", "p", "a", "g", "e", "s", "_">>],
                                  [field |-> "start"], [literal |-> <<"-">>],
                                  [field |-> "end"] >> ]

(***************************************************************************)
(* HeaderValidator                                                         *)
(***************************************************************************)
\* variant: the substitution map read in both directions (letter <-> digit)
AmbiguousMapGet_bidirectional(cfg, ch) ==
    IF \E p \in cfg.ambiguous_characters : p[1] = ch
    THEN (CHOOSE p \in cfg.ambiguous_characters : p[1] = ch)[2]
    ELSE IF \E p \in cfg.ambiguous_characters : p[2] = ch
    THEN (CHOOSE p \in cfg.ambiguous_characters : p[2] = ch)[1]
    ELSE ch

\* HeaderValidator._parse_ambiguous_map(...).get(ch, ch)
AmbiguousMapGet(cfg, ch) ==
    IF \E p \in cfg.ambiguous_characters : p[1] = ch
    THEN (CHOOSE p \in cfg.ambiguous_characters : p[1] = ch)[2]
    ELSE ch

AllowedChars(cfg) == cfg.character_whitelist \cup {cfg.expected_separator}

\* re.sub(sep+, sep, s)
RECURSIVE CollapseFrom(_, _, _, _)
CollapseFrom(s, sep, i, out) ==
    IF i > Len(s) THEN out
    ELSE IF s[i] = sep /\ Len(out) > 0 /\ out[Len(out)] = sep
         THEN CollapseFrom(s, sep, i + 1, out)
         ELSE CollapseFrom(s, sep, i + 1, Append(out, s[i]))

CollapseSeparators(s, sep) == CollapseFrom(s, sep, 1, <<>>)

\* s.strip(sep)
RECURSIVE StripSep(_, _)
StripSep(s, sep) ==
    IF Len(s) = 0 THEN s
    ELSE IF s[1] = sep THEN StripSep(Tail(s), sep)
    ELSE IF s[Len(s)] = sep THEN StripSep(SubSeq(s, 1, Len(s) - 1), sep)
    ELSE s

_repair_first_block_separator(cfg, text) ==
    LET parts == Split(text, cfg.expected_separator)
    IN  IF Len(parts) # 3 THEN text
        ELSE IF Len(parts[1]) < 4 THEN text
        ELSE IF ~IsAlphaChar(parts[1][1]) THEN text
        ELSE IF ~IsAlnum(parts[1]) THEN text
        ELSE Join(<< <<parts[1][1]>>, Tail(parts[1]), parts[2], parts[3] >>,
                  cfg.expected_separator)

_normalize_serial(cfg, serial) ==
    IF Len(serial) = 0 THEN serial
    ELSE IF Len(serial) = 1 THEN serial
    ELSE <<serial[1]>> \o [i \in 1..(Len(serial) - 1) |-> AmbiguousMapGet(cfg, serial[i + 1])]

\* parts[-1] = self._normalize_serial(parts[-1])
NormalizeLastPart(cfg, parts) ==
    [parts EXCEPT ![Len(parts)] = _normalize_serial(cfg, parts[Len(parts)])]

_normalize(cfg, text) ==
    IF Len(text) = 0 THEN <<>>
    ELSE LET up == Upper(text)
             nows == SelectSeq(up, LAMBDA ch : ch \notin Whitespace)
             kept == SelectSeq(nows, LAMBDA ch : ch \in AllowedChars(cfg))
             trimmed == StripSep(CollapseSeparators(kept, cfg.expected_separator),
                                 cfg.expected_separator)
             repaired == _repair_first_block_separator(cfg, trimmed)
             fixed == NormalizeLastPart(cfg, Split(repaired, cfg.expected_separator))
         IN  Join(fixed, cfg.expected_separator)

_has_only_allowed_chars(cfg, text) ==
    \A i \in 1..Len(text) : text[i] \in AllowedChars(cfg)

_valid_serial(cfg, serial0) ==
    IF Len(serial0) = 0 THEN FALSE
    ELSE LET serial == Upper(serial0)
             starts_with_allowed == serial[1] \in cfg.pattern_serial_allowed_prefixes
             serial_body == IF starts_with_allowed THEN Tail(serial) ELSE serial
             n == Len(serial_body)
         IN  IF cfg.serial_prefix_required /\ ~starts_with_allowed THEN FALSE
             ELSE IF n = 0 THEN FALSE
             ELSE IF ~IsDigit(serial_body) THEN FALSE
             ELSE IF n < cfg.min_digit_count THEN FALSE
             ELSE IF cfg.serial_digits_exact > 0 /\ n # cfg.serial_digits_exact THEN FALSE
             ELSE IF cfg.serial_digits_exact <= 0 /\ n > cfg.expected_digit_count + 2 THEN FALSE
             ELSE IF 2 * n < Max2(1, Len(serial)) THEN FALSE
             ELSE IF starts_with_allowed
                  THEN cfg.pattern_serial_min <= Len(serial) /\ Len(serial) <= cfg.pattern_serial_max
                  ELSE IsAlnum(serial) /\ Len(serial) >= cfg.min_digit_count

_has_serial_like_digits(cfg, serial) ==
    Len(DigitsOf(serial)) >= cfg.min_digit_count

PrefixScore(cfg, prefix, full, partial) ==
    IF Len(prefix) = cfg.pattern_prefix_length /\ IsAlpha(prefix) THEN full
    ELSE IF Len(prefix) <= 2 /\ IsAlnum(prefix) THEN partial
    ELSE 0

SerialScore(cfg, serial, full) ==
    IF _valid_serial(cfg, serial) THEN full
    ELSE IF _has_serial_like_digits(cfg, serial) THEN 4
    ELSE 0

_score_structure(cfg, parts) ==
    IF Len(parts) = cfg.expected_parts
    THEN 20
         + PrefixScore(cfg, parts[1], 15, 8)
         + (IF 1 <= Len(parts[2]) /\ Len(parts[2]) <= 6 /\ IsAlnum(parts[2]) THEN 12 ELSE 0)
         + (IF 1 <= Len(parts[3]) /\ Len(parts[3]) <= 6 /\ IsAlnum(parts[3]) THEN 15 ELSE 0)
         + SerialScore(cfg, parts[4], 35)
    ELSE IF Len(parts) = cfg.min_expected_parts
    THEN 10
         + PrefixScore(cfg, parts[1], 10, 6)
         + (IF 1 <= Len(parts[2]) /\ Len(parts[2]) <= 8 /\ IsAlnum(parts[2]) THEN 15 ELSE 0)
         + SerialScore(cfg, parts[3], 25)
    ELSE 0

\* header_pattern ^[A-Z](?:-[A-Z0-9]{1,8}){1,2}-[SR][0-9]{7,8}$ matched against text
MatchesHeaderPattern(text) ==
    LET parts == Split(text, "-")
        n == Len(parts)
    IN  /\ n \in {3, 4}
        /\ Len(parts[1]) = 1 /\ parts[1][1] \in UpperLetters
        /\ \A k \in 2..(n - 1) :
              /\ Len(parts[k]) \in 1..8
              /\ \A i \in 1..Len(parts[k]) : parts[k][i] \in UpperLetters \cup Digits
        /\ Len(parts[n]) \in {8, 9}
        /\ parts[n][1] \in {"S", "R"}
        /\ \A i \in 2..Len(parts[n]) : parts[n][i] \in Digits

\* variant: no cap applied
ApplySerialGate_uncapped(cfg, score, serial_valid) == score

\* the hard gate of validate_and_score
ApplySerialGate(cfg, score, serial_valid) ==
    IF ~serial_valid THEN Min2(score, cfg.invalid_serial_score_cap) ELSE score

\* validate_and_score from the normalized text on
ScoreNormalized(cfg, corrected) ==
    LET parts == Split(corrected, cfg.expected_separator)
        serial == Last(parts)
        serial_valid == _valid_serial(cfg, serial)
        raw == 10
               + (IF _has_only_allowed_chars(cfg, corrected) THEN 15 ELSE 0)
               + (IF Len(parts) >= cfg.min_expected_parts THEN 20 ELSE 0)
               + (IF cfg.enable_pattern_check /\ MatchesHeaderPattern(corrected) THEN 60 ELSE 0)
               + _score_structure(cfg, parts)
    IN  IF Len(corrected) = 0 THEN [score |-> 0, text |-> <<>>]
        ELSE [score |-> ApplySerialGate(cfg, raw, serial_valid), text |-> corrected]

validate_and_score(cfg, text) == ScoreNormalized(cfg, _normalize(cfg, text))

\* is_strict_header from the corrected text on
StrictCorrected(cfg, corrected) ==
    LET parts == Split(corrected, cfg.expected_separator)
    IN  IF Len(corrected) = 0 THEN FALSE
        ELSE IF Len(parts) < cfg.min_expected_parts THEN FALSE
        ELSE _valid_serial(cfg, Last(parts))

is_strict_header(cfg, text) == StrictCorrected(cfg, validate_and_score(cfg, text).text)

_serials_close(cfg, serial_a, serial_b) ==
    LET digits_a == DigitsOf(serial_a)
        digits_b == DigitsOf(serial_b)
    IN  IF Len(serial_a) = 0 \/ Len(serial_b) = 0 THEN FALSE
        ELSE IF Len(digits_a) = 0 \/ Len(digits_b) = 0 THEN FALSE
        ELSE RatioAtLeast(digits_a, digits_b, cfg.serial_close_match_threshold, 100)

\* variant: two weak serials may match when close
SerialBasedMatch_weak_close(cfg, serial_a, serial_b) ==
    IF _valid_serial(cfg, serial_a) /\ _valid_serial(cfg, serial_b) THEN serial_a = serial_b
    ELSE IF _serials_close(cfg, serial_a, serial_b) THEN TRUE
    ELSE serial_a = serial_b

\* variant: exact serial equality whatever the strictness
SerialBasedMatch_exact_only(cfg, serial_a, serial_b) == serial_a = serial_b

\* the serial-based branch of headers_match, taken when the non-serial parts are equal
SerialBasedMatch(cfg, serial_a, serial_b) ==
    LET strict_a == _valid_serial(cfg, serial_a)
        strict_b == _valid_serial(cfg, serial_b)
    IN  IF strict_a /\ strict_b THEN serial_a = serial_b
        ELSE IF strict_a # strict_b /\ _serials_close(cfg, serial_a, serial_b) THEN TRUE
        ELSE IF ~strict_a /\ ~strict_b THEN serial_a = serial_b
        ELSE FALSE

\* similarity >= norm_threshold; th is the threshold argument in hundredths
SimilarityMatch(a, b, th) ==
    IF th > 100 THEN RatioAtLeast(a, b, th, 10000) ELSE RatioAtLeast(a, b, th, 100)

\* headers_match from the two corrected texts on
MatchCorrected(cfg, a, b, th) ==
    LET parts_a == Split(a, cfg.expected_separator)
        parts_b == Split(b, cfg.expected_separator)
    IN  IF Len(a) = 0 \/ Len(b) = 0 THEN FALSE
        ELSE IF a = b THEN TRUE
        ELSE IF /\ cfg.enable_serial_based_matching
                /\ Len(parts_a) >= 3 /\ Len(parts_b) >= 3
                /\ ButLast(parts_a) = ButLast(parts_b)
             THEN SerialBasedMatch(cfg, Last(parts_a), Last(parts_b))
             ELSE SimilarityMatch(a, b, th)

headers_match(cfg, h1, h2, th) ==
    MatchCorrected(cfg, validate_and_score(cfg, h1).text, validate_and_score(cfg, h2).text, th)

(***************************************************************************)
(* PdfSplitter: OCR-error test between two group headers                   *)
(***************************************************************************)
\* re.findall(r'\d+', s): the maximal digit runs, left to right
RECURSIVE DigitRunsFrom(_, _, _)
DigitRunsFrom(s, i, cur) ==
    IF i > Len(s) THEN (IF Len(cur) > 0 THEN <<cur>> ELSE <<>>)
    ELSE IF IsDigitChar(s[i]) THEN DigitRunsFrom(s, i + 1, Append(cur, s[i]))
    ELSE (IF Len(cur) > 0 THEN <<cur>> ELSE <<>>) \o DigitRunsFrom(s, i + 1, <<>>)

\* max(digits, key=len) if digits else "": the first run of the greatest length
LongestDigitRun(s) ==
    LET runs == DigitRunsFrom(s, 1, <<>>)
    IN  IF Len(runs) = 0 THEN <<>>
        ELSE LET best == SetMax({Len(runs[k]) : k \in 1..Len(runs)})
             IN  runs[SetMin({k \in 1..Len(runs) : Len(runs[k]) = best})]

\* 1.0 - diff / max_len >= pct / 100
_strings_similar(s1, s2, pct) ==
    IF Len(s1) = 0 \/ Len(s2) = 0 THEN FALSE
    ELSE LET max_len == Max2(Len(s1), Len(s2))
         IN  (max_len - _count_char_differences(s1, s2)) * 100 >= pct * max_len

_is_serial_tail_digit_variant(cfg, h1, h2) ==
    LET parts1 == Split(h1, cfg.expected_separator)
        parts2 == Split(h2, cfg.expected_separator)
        serial1 == Last(parts1)
        serial2 == Last(parts2)
        digits1 == DigitsOf(Tail(serial1))
        digits2 == DigitsOf(Tail(serial2))
        long_digits == IF Len(digits1) >= Len(digits2) THEN digits1 ELSE digits2
        short_digits == IF Len(digits1) >= Len(digits2) THEN digits2 ELSE digits1
    IN  IF Len(h1) = 0 \/ Len(h2) = 0 THEN FALSE
        ELSE IF Len(parts1) < 3 \/ Len(parts2) < 3 THEN FALSE
        ELSE IF ButLast(parts1) # ButLast(parts2) THEN FALSE
        ELSE IF Len(serial1) = 0 \/ Len(serial2) = 0 THEN FALSE
        ELSE IF serial1[1] # serial2[1] THEN FALSE
        ELSE IF Len(digits1) = 0 \/ Len(digits2) = 0 THEN FALSE
        ELSE IF Len(long_digits) - Len(short_digits) # 1 THEN FALSE
        ELSE StartsWith(long_digits, short_digits)

\* variant: two different strict headers are never an OCR error of each other
StrictPairVerdict_never(cfg, norm1, norm2) == FALSE

\* the strict-vs-strict branch of _is_likely_ocr_error (two different strict headers)
StrictPairVerdict(cfg, norm1, norm2) ==
    _is_serial_tail_digit_variant(cfg, norm1, norm2)

\* diff <= most and diff / max_len < pct / 100
WithinDiff(diff, most, pct, max_len) ==
    diff <= most /\ 100 * diff < pct * max_len

\* the comparison of the longest digit runs; TRUE when it already decides for an OCR error
LongestDigitsAgree(d1, d2) ==
    /\ Len(d1) > 0 /\ Len(d2) > 0
    /\ Len(d1) >= 7 /\ Len(d2) >= 7
    /\ \/ d1 = d2
       \/ (IsSubstring(d1, d2) \/ IsSubstring(d2, d1)) /\ AbsDiff(Len(d1), Len(d2)) <= 2
       \/ WithinDiff(_count_char_differences(d1, d2), 2, 25, Max2(Len(d1), Len(d2)))

\* the structural fallback on the raw parts
StructuralOcrError(header1, header2, sep) ==
    LET parts1 == Split(header1, sep)
        parts2 == Split(header2, sep)
        serial1 == IF Len(parts1) > 3 THEN Last(parts1) ELSE <<>>
        serial2 == IF Len(parts2) > 3 THEN Last(parts2) ELSE <<>>
        serial_digits1 == DigitsOf(serial1)
        serial_digits2 == DigitsOf(serial2)
        max_len == Max2(Len(serial_digits1), Len(serial_digits2))
    IN  IF AbsDiff(Len(parts1), Len(parts2)) > 1 THEN FALSE
        ELSE IF ~(Len(parts1) >= 3 /\ Len(parts2) >= 3) THEN FALSE
        ELSE IF parts1[1] # parts2[1] THEN FALSE
        ELSE IF parts1[2] # parts2[2] /\ ~_strings_similar(parts1[2], parts2[2], 70) THEN FALSE
        ELSE IF ~_strings_similar(parts1[3], parts2[3], 50) THEN FALSE
        ELSE IF Len(serial_digits1) = 0 \/ Len(serial_digits2) = 0 THEN FALSE
        ELSE WithinDiff(_count_char_differences(serial_digits1, serial_digits2), 3, 30, max_len)

\* _is_likely_ocr_error from the two corrected texts on
OcrErrorCorrected(cfg, header1, header2, norm1, norm2) ==
    LET strict1 == is_strict_header(cfg, IF Len(norm1) > 0 THEN norm1 ELSE header1)
        strict2 == is_strict_header(cfg, IF Len(norm2) > 0 THEN norm2 ELSE header2)
    IN  IF strict1 /\ strict2 /\ norm1 # norm2 THEN StrictPairVerdict(cfg, norm1, norm2)
        ELSE IF AbsDiff(Len(header1), Len(header2)) > 5 THEN FALSE
        ELSE IF LongestDigitsAgree(LongestDigitRun(header1), LongestDigitRun(header2)) THEN TRUE
        ELSE StructuralOcrError(header1, header2, cfg.expected_separator)

_is_likely_ocr_error(cfg, header1, header2) ==
    OcrErrorCorrected(cfg, header1, header2,
                      validate_and_score(cfg, header1).text,
                      validate_and_score(cfg, header2).text)

(***************************************************************************)
(* PdfSplitter: representative header of a group                           *)
(***************************************************************************)
\* the characters of the model in code-point order
CharOrder ==
    <<" ", "#", "-", "0", "1", "2", "3", "4", "5", "6", "7", "8", "9",
      "A", "B", "C", "D", "E", "F", "G", "H", "I", "J", "K", "L", "M",
      "N", "O", "P", "Q", "R", "S", "T", "U", "V", "W", "X", "Y", "Z",
      "b", "e", "r", "s", "u", "y">>

Ord(ch) == CHOOSE k \in 1..Len(CharOrder) : CharOrder[k] = ch

\* a < b for two Python strings
RECURSIVE StrLess(_, _)
StrLess(a, b) ==
    IF Len(b) = 0 THEN FALSE
    ELSE IF Len(a) = 0 THEN TRUE
    ELSE IF a[1] # b[1] THEN Ord(a[1]) < Ord(b[1])
    ELSE StrLess(Tail(a), Tail(b))

\* x if x else y
OrElse(x, y) == IF Len(x) > 0 THEN x ELSE y

\* corrected if corrected else header
NormalizedOrRaw(cfg, header) == OrElse(validate_and_score(cfg, header).text, header)

\* the single-header case of _select_best_header
SingleBest(header, scored) ==
    IF scored.score > 0 /\ Len(scored.text) > 0 THEN scored.text ELSE header

\* the candidates entry of one normalized text
Candidate(cfg, headers, normalized) ==
    [ text |-> normalized,
      count |-> Cardinality({i \in 1..Len(headers) :
                                NormalizedOrRaw(cfg, headers[i]) = normalized}),
      strict_valid |-> IF is_strict_header(cfg, normalized) THEN 1 ELSE 0,
      best_score |-> SetMax({validate_and_score(cfg, headers[i]).score :
                                i \in {k \in 1..Len(headers) :
                                          NormalizedOrRaw(cfg, headers[k]) = normalized}}) ]

\* the sort key (count, strict_valid, best_score, len(text), text) of c below that of d
RankBelow(c, d) ==
    IF c.count # d.count THEN c.count < d.count
    ELSE IF c.strict_valid # d.strict_valid THEN c.strict_valid < d.strict_valid
    ELSE IF c.best_score # d.best_score THEN c.best_score < d.best_score
    ELSE IF Len(c.text) # Len(d.text) THEN Len(c.text) < Len(d.text)
    ELSE StrLess(c.text, d.text)

\* ranked[0][0] of the candidates sorted with reverse=True
TopRanked(candidates) ==
    (CHOOSE c \in candidates : \A d \in candidates : d = c \/ RankBelow(d, c)).text

_select_best_header(cfg, headers) ==
    IF Len(headers) = 0 THEN <<>>
    ELSE IF Len(headers) = 1
         THEN SingleBest(headers[1], validate_and_score(cfg, headers[1]))
         ELSE TopRanked({Candidate(cfg, headers, n) :
                            n \in {NormalizedOrRaw(cfg, headers[i]) : i \in 1..Len(headers)}})

(***************************************************************************)
(* PdfSplitter: grouping, context correction, adjacent merge               *)
(* A group is <<start_page, end_page, header_text>>, pages 0-based.        *)
(***************************************************************************)
NoGroup == <<>>

Pages(group) == group[2] - group[1] + 1

\* the rank of a neighbour, from its validate_and_score result on
RankScored(cfg, neighbor_group, scored) ==
    scored.score
    + (IF is_strict_header(cfg, OrElse(scored.text, neighbor_group[3])) THEN 20 ELSE 0)
    + Min2(10, Pages(neighbor_group))

_neighbor_rank(cfg, neighbor_group) ==
    IF neighbor_group = NoGroup THEN -1
    ELSE RankScored(cfg, neighbor_group, validate_and_score(cfg, neighbor_group[3]))

_select_merge_side(cfg, prev_group, next_group, prev_match, next_match) ==
    IF prev_match /\ ~next_match THEN "prev"
    ELSE IF next_match /\ ~prev_match THEN "next"
    ELSE IF ~prev_match /\ ~next_match THEN "none"
    ELSE IF _neighbor_rank(cfg, next_group) > _neighbor_rank(cfg, prev_group) THEN "next"
    ELSE "prev"

RECURSIVE _merge_adjacent_from(_, _, _)
_merge_adjacent_from(groups, k, merged) ==
    IF k > Len(groups) THEN merged
    ELSE IF groups[k][1] = Last(merged)[2] + 1 /\ groups[k][3] = Last(merged)[3]
         THEN _merge_adjacent_from(groups, k + 1,
                  [merged EXCEPT ![Len(merged)] = <<Last(merged)[1], groups[k][2], Last(merged)[3]>>])
         ELSE _merge_adjacent_from(groups, k + 1, Append(merged, groups[k]))

\* variant: no collapse of adjacent groups
_merge_adjacent_groups_none(groups) == groups

_merge_adjacent_groups(groups) ==
    IF Len(groups) = 0 THEN groups
    ELSE _merge_adjacent_from(groups, 2, <<groups[1]>>)

\* the while loop of _apply_context_correction; CorrectSingle is its single-page branch
RECURSIVE CorrectFrom(_, _, _, _)
RECURSIVE CorrectSingle(_, _, _, _, _, _, _)
\* variant: a page merged into the next group is not added to its range
CorrectSingle_next_keeps_start(cfg, working, corrected, i, prev_group, next_group, merge_side) ==
    IF merge_side = "prev" /\ prev_group # NoGroup
    THEN CorrectFrom(cfg, working,
             [corrected EXCEPT ![Len(corrected)] = <<prev_group[1], working[i][2], prev_group[3]>>],
             i + 1)
    ELSE IF merge_side = "next" /\ next_group # NoGroup
    THEN CorrectFrom(cfg, working, corrected, i + 1)
    ELSE CorrectFrom(cfg, working, Append(corrected, working[i]), i + 1)

CorrectSingle(cfg, working, corrected, i, prev_group, next_group, merge_side) ==
    IF merge_side = "prev" /\ prev_group # NoGroup
    THEN CorrectFrom(cfg, working,
             [corrected EXCEPT ![Len(corrected)] = <<prev_group[1], working[i][2], prev_group[3]>>],
             i + 1)
    ELSE IF merge_side = "next" /\ next_group # NoGroup
    THEN CorrectFrom(cfg,
             [working EXCEPT ![i + 1] = <<working[i][1], next_group[2], next_group[3]>>],
             corrected, i + 1)
    ELSE CorrectFrom(cfg, working, Append(corrected, working[i]), i + 1)

\* the neighbours of working[i] and the side chosen for it
PrevGroup(corrected) == IF Len(corrected) > 0 THEN Last(corrected) ELSE NoGroup
NextGroup(working, i) == IF i + 1 <= Len(working) THEN working[i + 1] ELSE NoGroup

\* variant: any neighbour counts as a match
NeighborMatch_any_neighbor(cfg, current_header, neighbor_group) ==
    neighbor_group # NoGroup

NeighborMatch(cfg, current_header, neighbor_group) ==
    neighbor_group # NoGroup /\ _is_likely_ocr_error(cfg, current_header, neighbor_group[3])

CorrectFrom(cfg, working, corrected, i) ==
    IF i > Len(working) THEN corrected
    ELSE IF Pages(working[i]) = 1
    THEN CorrectSingle(cfg, working, corrected, i, PrevGroup(corrected), NextGroup(working, i),
             _select_merge_side(cfg, PrevGroup(corrected), NextGroup(working, i),
                 NeighborMatch(cfg, working[i][3], PrevGroup(corrected)),
                 NeighborMatch(cfg, working[i][3], NextGroup(working, i))))
    ELSE CorrectFrom(cfg, working, Append(corrected, working[i]), i + 1)

_apply_context_correction(cfg, groups) ==
    IF Len(groups) <= 1 THEN groups
    ELSE _merge_adjacent_groups(CorrectFrom(cfg, groups, <<>>, 1))

\* the for loop of _detect_header_groups over page_headers[i..], then the last group
RECURSIVE GroupFrom(_, _, _, _, _, _, _)
\* variant: a page is compared with the page before it
GroupFrom_previous_page(cfg, ph, i, current_start, current_header, current_headers, acc) ==
    IF i > Len(ph)
    THEN Append(acc, <<current_start, ph[Len(ph)][1], _select_best_header(cfg, current_headers)>>)
    ELSE IF headers_match(cfg, ph[i][2], ph[i - 1][2], cfg.header_similarity_threshold)
    THEN GroupFrom(cfg, ph, i + 1, current_start, current_header,
                   Append(current_headers, ph[i][2]), acc)
    ELSE GroupFrom(cfg, ph, i + 1, ph[i][1], ph[i][2], <<ph[i][2]>>,
                   Append(acc, <<current_start, ph[i - 1][1],
                                 _select_best_header(cfg, current_headers)>>))

GroupFrom(cfg, ph, i, current_start, current_header, current_headers, acc) ==
    IF i > Len(ph)
    THEN Append(acc, <<current_start, ph[Len(ph)][1], _select_best_header(cfg, current_headers)>>)
    ELSE IF headers_match(cfg, ph[i][2], current_header, cfg.header_similarity_threshold)
    THEN GroupFrom(cfg, ph, i + 1, current_start, current_header,
                   Append(current_headers, ph[i][2]), acc)
    ELSE GroupFrom(cfg, ph, i + 1, ph[i][1], ph[i][2], <<ph[i][2]>>,
                   Append(acc, <<current_start, ph[i - 1][1],
                                 _select_best_header(cfg, current_headers)>>))

\* the groups before context correction
InitialGroups(cfg, ph) ==
    IF Len(ph) = 0 THEN <<>>
    ELSE GroupFrom(cfg, ph, 2, ph[1][1], ph[1][2], <<ph[1][2]>>, <<>>)

\* the min_pages_per_split filter
FilterMinPages(cfg, groups) ==
    IF cfg.min_pages_per_split > 0
    THEN SelectSeq(groups, LAMBDA g : Pages(g) >= cfg.min_pages_per_split)
    ELSE groups

_detect_header_groups(cfg, ph) ==
    IF Len(ph) = 0 THEN <<>>
    ELSE FilterMinPages(cfg, _apply_context_correction(cfg, InitialGroups(cfg, ph)))

(***************************************************************************)
(* Inputs: header strings as the extractor hands them over, clean and with *)
(* OCR noise.                                                              *)
(***************************************************************************)
Hdr(parts) == Join(parts, "-")

S18010794 == <<"S", "1", "8", "0", "1", "0", "7", "9", "4">>
S18010792 == <<"S", "1", "8", "0", "1", "0", "7", "9", "2">>
R4092558 == <<"R", "4", "0", "9", "2", "5", "5", "8">>
R4092528 == <<"R", "4", "0", "9", "2", "5", "2", "8">>
R4092527 == <<"R", "4", "0", "9", "2", "5", "2", "7">>
R40925274 == <<"R", "4", "0", "9", "2", "5", "2", "7", "4">>
R409252 == <<"R", "4", "0", "9", "2", "5", "2">>
R40925271 == <<"R", "4", "0", "9", "2", "5", "2", "7", "1">>
S17978007 == <<"S", "1", "7", "9", "7", "8", "0", "0", "7">>
S179780077 == <<"S", "1", "7", "9", "7", "8", "0", "0", "7", "7">>
S1797 == <<"S", "1", "7", "9", "7">>
R40X2558 == <<"R", "4", "0", "X", "2", "5", "5", "8">>
R40X2528 == <<"R", "4", "0", "X", "2", "5", "2", "8">>
S1R015003 == <<"S", "1", "R", "0", "1", "5", "0", "0", "3">>
SI80IO794 == <<"S", "I", "8", "0", "I", "O", "7", "9", "4">>
S1801079 == <<"S", "1", "8", "0", "1", "0", "7", "9">>
S12332203 == <<"S", "1", "2", "3", "3", "2", "2", "0", "3">>
X12033203 == <<"X", "1", "2", "0", "3", "3", "2", "0", "3">>

B_TW_UET_S18010794 == Hdr(<< <<"B">>, <<"T", "W">>, <<"U", "E", "T">>, S18010794 >>)
B_TW_UEI_S18010792 == Hdr(<< <<"B">>, <<"T", "W">>, <<"U", "E", "I">>, S18010792 >>)
B_TW_UEI_S18010794 == Hdr(<< <<"B">>, <<"T", "W">>, <<"U", "E", "I">>, S18010794 >>)
B_TW_UET_S18010792 == Hdr(<< <<"B">>, <<"T", "W">>, <<"U", "E", "T">>, S18010792 >>)
B_E_UUY_R4092558 == Hdr(<< <<"B">>, <<"E">>, <<"U", "U", "Y">>, R4092558 >>)
B_E_UUY_R4092528 == Hdr(<< <<"B">>, <<"E">>, <<"U", "U", "Y">>, R4092528 >>)
B_E_UUY_R4092527 == Hdr(<< <<"B">>, <<"E">>, <<"U", "U", "Y">>, R4092527 >>)
B_E_UUY_R40925274 == Hdr(<< <<"B">>, <<"E">>, <<"U", "U", "Y">>, R40925274 >>)
B_E_UUY_R40925271 == Hdr(<< <<"B">>, <<"E">>, <<"U", "U", "Y">>, R40925271 >>)
B_E_UUY_R40X2558 == Hdr(<< <<"B">>, <<"E">>, <<"U", "U", "Y">>, R40X2558 >>)
B_E_UUY_R40X2528 == Hdr(<< <<"B">>, <<"E">>, <<"U", "U", "Y">>, R40X2528 >>)
B_HK_ZN1_S17978007 == Hdr(<< <<"B">>, <<"H", "K">>, <<"Z", "N", "1">>, S17978007 >>)
B_HK_ZN1_S179780077 == Hdr(<< <<"B">>, <<"H", "K">>, <<"Z", "N", "1">>, S179780077 >>)
B_HK_ZN1_S1797 == Hdr(<< <<"B">>, <<"H", "K">>, <<"Z", "N", "1">>, S1797 >>)
B_UUY_R4092558 == Hdr(<< <<"B">>, <<"U", "U", "Y">>, R4092558 >>)
B_UUY_R409252 == Hdr(<< <<"B">>, <<"U", "U", "Y">>, R409252 >>)
B_UUY_R4092527 == Hdr(<< <<"B">>, <<"U", "U", "Y">>, R4092527 >>)
B_UUY_S18010794 == Hdr(<< <<"B">>, <<"U", "U", "Y">>, S18010794 >>)
\* one and two segments only, the serial itself well formed
Only_S18010794 == S18010794
AB_S18010794 == Hdr(<< <<"A", "B">>, S18010794 >>)
AB_S1801079 == Hdr(<< <<"A", "B">>, S1801079 >>)
AB_R4092558 == Hdr(<< <<"A", "B">>, R4092558 >>)
AB_R4092528 == Hdr(<< <<"A", "B">>, R4092528 >>)
\* a strict serial and a serial with a foreign prefix letter, digits shuffled
B_TW_UET_S12332203 == Hdr(<< <<"B">>, <<"T", "W">>, <<"U", "E", "T">>, S12332203 >>)
B_TW_UET_X12033203 == Hdr(<< <<"B">>, <<"T", "W">>, <<"U", "E", "T">>, X12033203 >>)
\* first separator dropped: RLWK-RWC-S1R015003
RLWK_RWC_S1R015003 == Hdr(<< <<"R", "L", "W", "K">>, <<"R", "W", "C">>, S1R015003 >>)
BTW_UET_S18010794 == Hdr(<< <<"B", "T", "W">>, <<"U", "E", "T">>, S18010794 >>)
BTWX_UET_S18010794 == Hdr(<< <<"B", "T", "W", "X">>, <<"U", "E", "T">>, S18010794 >>)
\* serial digits misread as look-alike letters
B_TW_UET_SI80IO794 == Hdr(<< <<"B">>, <<"T", "W">>, <<"U", "E", "T">>, SI80IO794 >>)
\* lower case, blanks, doubled and trailing separators, a character off the whitelist
Noisy_b_e_uuy_r4092558 ==
    <<" ", "b", "-", "e", "-", "-", "u", "u", "y", " ", "-", "r", "4", "0", "9", "2",
      "5", "5", "8", "#", "-">>
OnlyJunk == <<"#", " ", "-">>

PairHeaders ==
    { B_TW_UET_S18010794, B_TW_UEI_S18010792, B_TW_UEI_S18010794,
      B_E_UUY_R4092558, B_E_UUY_R4092528, B_E_UUY_R4092527, B_E_UUY_R40925274,
      B_E_UUY_R40X2558, B_E_UUY_R40X2528,
      B_HK_ZN1_S17978007, B_HK_ZN1_S179780077, B_HK_ZN1_S1797,
      B_UUY_R4092558, Noisy_b_e_uuy_r4092558,
      AB_S18010794, AB_S1801079, AB_R4092558, AB_R4092528,
      B_TW_UET_S12332203, B_TW_UET_X12033203 }

SingleHeaders ==
    PairHeaders \cup
    { <<>>, OnlyJunk, Only_S18010794, B_UUY_S18010794,
      RLWK_RWC_S1R015003, BTW_UET_S18010794, BTWX_UET_S18010794,
      B_TW_UET_SI80IO794, B_TW_UET_S18010792 }

\* thresholds handed to headers_match, in hundredths: 0.5, 0.85, 1.0 and 90.0 (a percentage)
Thresholds == {50, 85, 100, 9000}

\* configurations: the defaults; a digit range instead of an exact digit count;
\* a low invalid-serial cap; serial-based matching switched off
RangeConfig == [DefaultConfig EXCEPT !.serial_digits_exact = 0]
LowCapConfig == [DefaultConfig EXCEPT !.invalid_serial_score_cap = 20]
FuzzyOnlyConfig == [DefaultConfig EXCEPT !.enable_serial_based_matching = FALSE]
Configs == {DefaultConfig, RangeConfig, LowCapConfig}

(***************************************************************************)
(* State machine of the validator calls                                    *)
(***************************************************************************)
NoText == <<>>

ValidatorIdle ==
    /\ in_header1 = NoText /\ in_header2 = NoText /\ threshold = 0
    /\ ret_text = NoText /\ ret_text2 = NoText /\ ret_score = 0 /\ ret_bool = FALSE

SplitterIdle ==
    /\ page_headers = <<>> /\ groups_in = <<>> /\ initial_groups = <<>> /\ ret_groups = <<>>

ValidatorVars == <<in_header1, in_header2, threshold, ret_text, ret_text2, ret_score, ret_bool>>
SplitterVars == <<page_headers, groups_in, initial_groups, ret_groups>>

ProcessIdle ==
    /\ total_pages = 0 /\ page_num = 0 /\ pc = "idle" /\ split_results = <<>>

ProcessVars == <<total_pages, page_num, pc, split_results>>

OcrIdle ==
    /\ psm_idx = 0 /\ method_idx = 0 /\ attempts = 0 /\ invocations = 0 /\ early_exit = FALSE
    /\ method_results = <<>> /\ freq_ratio = <<0, 1>>

OcrVars == <<psm_idx, method_idx, attempts, invocations, early_exit, method_results,
             freq_ratio>>

NoInfo == [note |-> "none"]

AnchorIdle ==
    /\ page_quality_flags = <<>> /\ updated_headers = <<>> /\ updates = <<>>
    /\ rescue_pick = 0 /\ rescue_calls = {}

AnchorVars == <<page_quality_flags, updated_headers, updates, rescue_pick, rescue_calls>>

NoReading == [text |-> NoText, conf |-> 0, raises |-> FALSE]

FallbackIdle ==
    /\ tesseract_text_in = NoText /\ paddle_reading = NoReading /\ engine_creation = "engine"
    /\ paddleocr_engine = "None" /\ fallback_ret = NoInfo

FallbackVars == <<tesseract_text_in, paddle_reading, engine_creation, paddleocr_engine,
                  fallback_ret>>

NamingIdle == output_filenames = <<>>

NamingVars == <<output_filenames>>

\* an output folder without the files of a call, and no call of _create_pdf_subset
NoFiles ==
    [temp |-> "none", temp_locked |-> FALSE, target_exists |-> FALSE, target_locked |-> FALSE,
     locked_names |-> {}, regen_names |-> {}, disk_full |-> FALSE]

NoPath == [path |-> "running", index |-> 0]

NoSubsetCall ==
    [pc |-> "idle", attempts |-> 0, slept |-> 0, errors |-> 0, replaced |-> FALSE,
     flow |-> "none", raised |-> FALSE, unlink_failed |-> FALSE,
     fallback_target |-> 0, names_seen |-> {}, ret |-> NoPath]

SubsetIdle == file_system = NoFiles /\ subset_call = NoSubsetCall

SubsetVars == <<file_system, subset_call>>

\* seconds the circuit stays open before a request is let through again
BreakerTimeout == 60

\* CircuitBreaker.__init__; last_failure_time is <<>> for None, else <<t>>
CircuitBreaker(failure_threshold, timeout) ==
    [failure_threshold |-> failure_threshold, timeout |-> timeout, failure_count |-> 0,
     last_failure_time |-> <<>>, state |-> "CLOSED"]

\* queue.Queue(maxsize)
Queue(maxsize) == [items |-> <<>>, maxsize |-> maxsize]

NoStats == [total_sent |-> 0, total_success |-> 0, total_failed |-> 0, total_dropped |-> 0]

NoCall == [op |-> "none", before |-> "CLOSED", result |-> FALSE, elapsed |-> FALSE,
           failures |-> 0]

IdleProducer == [pc |-> "idle", calls |-> 0, loaded |-> 0, put |-> "none", size_before |-> 0]

IdleSender == [pc |-> "idle", loaded |-> 0, saw |-> NoCall]

StartClock == [now |-> 0, ticks |-> 0]

\* ExtractionLogger.__init__ but for the queue, the breaker and the worker
LoggerBuilt ==
    /\ stats = NoStats /\ producer = IdleProducer /\ sender = IdleSender
    /\ shutdown_event = FALSE /\ breaker_call = NoCall /\ clock = StartClock

LoggerIdle ==
    /\ LoggerBuilt
    /\ log_queue = Queue(DefaultConfig.api_queue_size)
    /\ breaker = CircuitBreaker(DefaultConfig.circuit_breaker_threshold, BreakerTimeout)

LoggerVars == <<log_queue, stats, producer, sender, shutdown_event, breaker, breaker_call,
                clock>>

ServiceIdle == SubsetIdle /\ LoggerIdle

ServiceVars == <<SubsetVars, LoggerVars>>

ComponentIdle == FallbackIdle /\ NamingIdle /\ ServiceIdle

ComponentVars == <<FallbackVars, NamingVars, ServiceVars>>

ExtractIdle ==
    /\ tesseract_available = TRUE /\ paddle_available = FALSE
    /\ page_inputs = <<>> /\ csv_records = <<>>
    /\ ComponentIdle

ExtractVars == <<tesseract_available, paddle_available, page_inputs, csv_records,
                 ComponentVars>>

CodeIdle ==
    /\ headers_in = <<>> /\ min_support = 0 /\ ret_info = NoInfo
    /\ AnchorIdle /\ ExtractIdle

CodeVars == <<headers_in, min_support, ret_info, AnchorVars, ExtractVars>>

\* one header, a validator built from one of the configurations
InitValidate ==
    /\ config \in Configs
    /\ call = "none"
    /\ in_header1 \in SingleHeaders
    /\ in_header2 = NoText /\ threshold = 0
    /\ ret_text = NoText /\ ret_text2 = NoText /\ ret_score = 0 /\ ret_bool = FALSE
    /\ SplitterIdle /\ ProcessIdle /\ OcrIdle /\ CodeIdle

ValidateAndScore ==
    /\ call = "none"
    /\ call' = "validate_and_score"
    /\ ret_score' = validate_and_score(config, in_header1).score
    /\ ret_text' = validate_and_score(config, in_header1).text
    /\ UNCHANGED <<config, in_header1, in_header2, threshold, ret_text2, ret_bool, SplitterVars, ProcessVars, OcrVars, CodeVars>>

IsStrictHeader ==
    /\ call = "none"
    /\ call' = "is_strict_header"
    /\ ret_bool' = is_strict_header(config, in_header1)
    /\ UNCHANGED <<config, in_header1, in_header2, threshold, ret_text, ret_text2, ret_score,
                   SplitterVars, ProcessVars, OcrVars, CodeVars>>

Normalize ==
    /\ call = "none"
    /\ call' = "_normalize"
    /\ ret_text' = _normalize(config, in_header1)
    /\ UNCHANGED <<config, in_header1, in_header2, threshold, ret_text2, ret_score, ret_bool,
                   SplitterVars, ProcessVars, OcrVars, CodeVars>>

\* _normalize applied to its own output
NormalizeAgain ==
    /\ call = "_normalize"
    /\ call' = "_normalize_again"
    /\ ret_text2' = _normalize(config, ret_text)
    /\ UNCHANGED <<config, in_header1, in_header2, threshold, ret_text, ret_score, ret_bool,
                   SplitterVars, ProcessVars, OcrVars, CodeVars>>

NextValidate == ValidateAndScore \/ IsStrictHeader \/ Normalize \/ NormalizeAgain

SpecValidate == InitValidate /\ [][NextValidate]_vars

\* the last segment of a text
SerialSegment(cfg, text) == Last(Split(text, cfg.expected_separator))

\* C4 as stated: whenever is_strict_header(s) is false, the score returned by
\* validate_and_score(s) is at most invalid_serial_score_cap, for every cap.
C4_ScoreCappedUnlessStrictHeader ==
    (call = "validate_and_score" /\ ~is_strict_header(config, in_header1))
        => ret_score <= config.invalid_serial_score_cap

\* C4: whenever the last segment of the normalized text is not a strictly valid
\* serial, the score returned by validate_and_score is at most
\* invalid_serial_score_cap, for every cap; the segment count plays no part.
C4_ScoreCappedUnlessSerialValid ==
    (call = "validate_and_score" /\ ~_valid_serial(config, SerialSegment(config, ret_text)))
        => ret_score <= config.invalid_serial_score_cap

\* a header with four segments and an invalid serial, whose score the gate cut to the cap
C4_Witness ==
    /\ call = "validate_and_score"
    /\ Len(Split(ret_text, config.expected_separator)) = config.expected_parts
    /\ ~_valid_serial(config, SerialSegment(config, ret_text))
    /\ ret_score = config.invalid_serial_score_cap

\* C9: _normalize(_normalize(x)) = _normalize(x) for every input x, also when the
\* first-block separator repair fires and when the serial holds characters of the
\* substitution map.
C9_NormalizeIdempotent ==
    call = "_normalize_again" => ret_text2 = ret_text

\* the repair fired (three segments became four) and the second pass has run
C9_Witness ==
    /\ call = "_normalize_again"
    /\ Len(Split(in_header1, config.expected_separator)) = 3
    /\ Len(Split(ret_text, config.expected_separator)) = 4
    /\ Len(Split(ret_text, config.expected_separator)[1]) = 1

(***************************************************************************)
(* State machine of the two-header calls: HeaderValidator.headers_match    *)
(* and PdfSplitter._is_likely_ocr_error                                    *)
(***************************************************************************)
PairConfigs == {DefaultConfig, RangeConfig, FuzzyOnlyConfig}

InitMatch ==
    /\ config \in PairConfigs
    /\ call = "none"
    /\ in_header1 \in PairHeaders
    /\ in_header2 \in PairHeaders
    /\ threshold \in Thresholds
    /\ ret_text = NoText /\ ret_text2 = NoText /\ ret_score = 0 /\ ret_bool = FALSE
    /\ SplitterIdle /\ ProcessIdle /\ OcrIdle /\ CodeIdle

HeadersMatch ==
    /\ call = "none"
    /\ call' = "headers_match"
    /\ ret_bool' = headers_match(config, in_header1, in_header2, threshold)
    /\ UNCHANGED <<config, in_header1, in_header2, threshold, ret_text, ret_text2, ret_score,
                   SplitterVars, ProcessVars, OcrVars, CodeVars>>

IsLikelyOcrError ==
    /\ call = "none"
    /\ call' = "_is_likely_ocr_error"
    /\ ret_bool' = _is_likely_ocr_error(config, in_header1, in_header2)
    /\ UNCHANGED <<config, in_header1, in_header2, threshold, ret_text, ret_text2, ret_score,
                   SplitterVars, ProcessVars, OcrVars, CodeVars>>

NextMatch == HeadersMatch \/ IsLikelyOcrError

SpecMatch == InitMatch /\ [][NextMatch]_vars

\* the corrected texts of the two arguments and their segments
Corrected1 == validate_and_score(config, in_header1).text
Corrected2 == validate_and_score(config, in_header2).text
Parts1 == Split(Corrected1, config.expected_separator)
Parts2 == Split(Corrected2, config.expected_separator)
Serial1 == Last(Parts1)
Serial2 == Last(Parts2)
SerialValid1 == _valid_serial(config, Serial1)
SerialValid2 == _valid_serial(config, Serial2)
BothStrictHeaders == is_strict_header(config, in_header1) /\ is_strict_header(config, in_header2)

\* both texts non-empty, with equal segments before the last one
SameNonSerialSegments ==
    /\ Len(Corrected1) > 0 /\ Len(Corrected2) > 0
    /\ ButLast(Parts1) = ButLast(Parts2)

\* the serial-based rules apply: switched on, and both texts have three segments or more
SerialRulesApply ==
    /\ config.enable_serial_based_matching
    /\ Len(Parts1) >= 3 /\ Len(Parts2) >= 3

\* ratio of the digit sequences of the two serials, first argument first,
\* >= serial_close_match_threshold
SerialDigitsClose ==
    /\ Len(DigitsOf(Serial1)) > 0 /\ Len(DigitsOf(Serial2)) > 0
    /\ RatioAtLeast(DigitsOf(Serial1), DigitsOf(Serial2),
                    config.serial_close_match_threshold, 100)

\* C1: two headers that both satisfy is_strict_header and whose normalized serials
\* differ never match, whatever the threshold, also when other segments differ too.
C1_NoFalseStrictMerge ==
    (call = "headers_match" /\ BothStrictHeaders /\ Serial1 # Serial2)
        => ret_bool = FALSE

\* C7 as stated: identical non-serial segments and two serials that are both not
\* strictly valid match exactly when the normalized serials are equal.
C7_WeakSerialsMatchIffEqual ==
    (call = "headers_match" /\ SameNonSerialSegments /\ ~SerialValid1 /\ ~SerialValid2)
        => (ret_bool <=> Serial1 = Serial2)

\* C7: with serial-based matching on and three segments or more on both sides,
\* identical non-serial segments and two serials that are both not strictly valid
\* match exactly when the normalized serials are equal, whatever the threshold.
C7_WeakSerialsMatchIffEqual_SerialRules ==
    (call = "headers_match" /\ SerialRulesApply /\ SameNonSerialSegments
        /\ ~SerialValid1 /\ ~SerialValid2)
        => (ret_bool <=> Serial1 = Serial2)

\* two weak serials one digit apart, compared at 0.85, judged different
C7_Witness ==
    /\ call = "headers_match" /\ threshold = 85
    /\ SerialRulesApply /\ SameNonSerialSegments
    /\ ~SerialValid1 /\ ~SerialValid2
    /\ Len(Serial1) = Len(Serial2)
    /\ Cardinality({i \in 1..Len(Serial1) : Serial1[i] # Serial2[i]}) = 1
    /\ ret_bool = FALSE

\* C8 as stated: identical non-serial segments and exactly one strictly valid serial
\* match exactly when the digit sequences of the serials have ratio >=
\* serial_close_match_threshold, whatever the threshold argument.
C8_OneStrictMatchIffClose ==
    (call = "headers_match" /\ SameNonSerialSegments /\ SerialValid1 # SerialValid2)
        => (ret_bool <=> SerialDigitsClose)

\* C8: with serial-based matching on and three segments or more on both sides,
\* identical non-serial segments and exactly one strictly valid serial match exactly
\* when the digit sequences of the serials, taken in argument order, have ratio >=
\* serial_close_match_threshold, whatever the threshold argument.
C8_OneStrictMatchIffClose_SerialRules ==
    (call = "headers_match" /\ SerialRulesApply /\ SameNonSerialSegments
        /\ SerialValid1 # SerialValid2)
        => (ret_bool <=> SerialDigitsClose)

\* a weak second serial close to the strict first one, matched at threshold 1.0
C8_Witness ==
    /\ call = "headers_match" /\ threshold = 100
    /\ SerialRulesApply /\ SameNonSerialSegments
    /\ SerialValid1 /\ ~SerialValid2
    /\ Serial1 # Serial2
    /\ ret_bool = TRUE

\* one digit string is the other plus one trailing digit, after the same non-serial
\* segments and the same serial prefix letter
TailDigitApart ==
    /\ Len(Parts1) >= 3 /\ Len(Parts2) >= 3
    /\ ButLast(Parts1) = ButLast(Parts2)
    /\ Len(Serial1) > 0 /\ Len(Serial2) > 0
    /\ Serial1[1] = Serial2[1]
    /\ LET d1 == DigitsOf(Tail(Serial1))
           d2 == DigitsOf(Tail(Serial2))
       IN  /\ Len(d1) > 0 /\ Len(d2) > 0
           /\ \/ (Len(d1) = Len(d2) + 1 /\ SubSeq(d1, 1, Len(d2)) = d2)
              \/ (Len(d2) = Len(d1) + 1 /\ SubSeq(d2, 1, Len(d1)) = d1)

\* C5 as stated: for two strictly valid headers with different serials
\* _is_likely_ocr_error returns False under every digit-range configuration, also
\* when one serial is the other plus one trailing digit.
C5_StrictPairNeverOcrError ==
    (call = "_is_likely_ocr_error" /\ BothStrictHeaders /\ Serial1 # Serial2)
        => ret_bool = FALSE

\* C5: for two strictly valid headers with different corrected texts
\* _is_likely_ocr_error returns True exactly when the non-serial segments and the
\* serial prefix letter agree and one digit string is the other plus one trailing
\* digit; in every other case it returns False.
C5_StrictPairOcrErrorIffTailDigit ==
    (call = "_is_likely_ocr_error" /\ BothStrictHeaders /\ Corrected1 # Corrected2)
        => (ret_bool <=> TailDigitApart)

\* two strict headers with different serials judged an OCR error of each other
C5_Witness ==
    /\ call = "_is_likely_ocr_error"
    /\ BothStrictHeaders /\ Serial1 # Serial2
    /\ ret_bool = TRUE

(***************************************************************************)
(* State machine of a direct PdfSplitter._apply_context_correction call    *)
(***************************************************************************)
MaxGroups == 3

\* pages per group, and unread pages left out between a group and the next
GroupSizes == {1, 2}
Gaps == {0, 1}

CorrectionHeaders == {B_E_UUY_R4092527, B_E_UUY_R40925274, B_UUY_R409252, B_UUY_R4092527}

\* the groups with the given sizes, gaps and headers, the first one starting at page `first`
RECURSIVE BuildGroups(_, _, _, _, _)
BuildGroups(sizes, gaps, headers, k, first) ==
    IF k > Len(sizes) THEN <<>>
    ELSE << <<first, first + sizes[k] - 1, headers[k]>> >>
         \o BuildGroups(sizes, gaps, headers, k + 1,
                        first + sizes[k] + (IF k < Len(sizes) THEN gaps[k] ELSE 0))

InitCorrect ==
    /\ config \in {DefaultConfig, RangeConfig}
    /\ call = "none"
    /\ ValidatorIdle
    /\ page_headers = <<>> /\ initial_groups = <<>> /\ ret_groups = <<>>
    /\ \E n \in 1..MaxGroups :
       \E sizes \in [1..n -> GroupSizes], gaps \in [1..(n - 1) -> Gaps],
          headers \in [1..n -> CorrectionHeaders] :
            groups_in = BuildGroups(sizes, gaps, headers, 1, 0)
    /\ ProcessIdle /\ OcrIdle /\ CodeIdle

ApplyContextCorrection ==
    /\ call = "none"
    /\ call' = "_apply_context_correction"
    /\ ret_groups' = _apply_context_correction(config, groups_in)
    /\ UNCHANGED <<config, ValidatorVars, page_headers, groups_in, initial_groups, ProcessVars, OcrVars, CodeVars>>

NextCorrect == ApplyContextCorrection

SpecCorrect == InitCorrect /\ [][NextCorrect]_vars

\* header x has the non-serial segments and the serial prefix letter of header y, and
\* its serial digits are those of y plus one trailing digit
TailDigitOf(x, y) ==
    LET px == Split(x, "-")
        py == Split(y, "-")
    IN  /\ ButLast(px) = ButLast(py)
        /\ Len(Last(px)) > 0 /\ Len(Last(py)) > 0
        /\ Last(px)[1] = Last(py)[1]
        /\ Len(DigitsOf(Tail(Last(py)))) > 0
        /\ \E d \in Digits : DigitsOf(Tail(Last(px))) = Append(DigitsOf(Tail(Last(py))), d)

\* the neighbours of group i in groups_in
NeighborsOf(i) == {i - 1, i + 1} \cap (1..Len(groups_in))

\* the page of the single-page group i lies in a returned group that carries header h
PageJoinsHeader(i, h) ==
    \E k \in 1..Len(ret_groups) :
        /\ ret_groups[k][1] <= groups_in[i][1] /\ groups_in[i][1] <= ret_groups[k][2]
        /\ ret_groups[k][3] = h

TailDigitSandwich ==
    /\ Len(groups_in) = 3
    /\ groups_in[2][1] = groups_in[1][2] + 1
    /\ groups_in[3][1] = groups_in[2][2] + 1
    /\ Pages(groups_in[1]) > 1
    /\ Pages(groups_in[2]) = 1
    /\ groups_in[3][3] = groups_in[1][3]
    /\ TailDigitOf(groups_in[2][3], groups_in[1][3])

\* both headers strictly valid, or the digit run of the shorter serial 7 digits or longer
TailDigitRecognized ==
    \/ is_strict_header(config, groups_in[1][3]) /\ is_strict_header(config, groups_in[2][3])
    \/ Len(LongestDigitRun(groups_in[1][3])) >= 7

MaxPages == 4

\* what _extract_header_from_page can return for a page; "" when nothing was read
ExtractedHeaders ==
    {B_E_UUY_R4092527, B_E_UUY_R40925274, B_E_UUY_R40925271, B_TW_UET_S18010794, NoText}

MinTwoPagesConfig == [DefaultConfig EXCEPT !.min_pages_per_split = 2]
NoSplitConfig == [DefaultConfig EXCEPT !.enable_pdf_splitting = FALSE]
ProcessConfigs == {DefaultConfig, RangeConfig, MinTwoPagesConfig, NoSplitConfig}

UNKNOWN == <<"U", "N", "K", "N", "O", "W", "N">>

InitProcess ==
    /\ config \in ProcessConfigs
    /\ call = "process_pdf"
    /\ ValidatorIdle
    /\ SplitterIdle
    /\ total_pages \in 1..MaxPages
    /\ page_num = 1
    /\ pc = "extract"
    /\ split_results = <<>>
    /\ OcrIdle /\ CodeIdle

\* one iteration of the page loop
ExtractPage ==
    /\ pc = "extract"
    /\ page_num <= total_pages
    /\ \E header_text \in ExtractedHeaders :
          page_headers' = IF Len(header_text) > 0
                          THEN Append(page_headers, <<page_num - 1, header_text>>)
                          ELSE page_headers
    /\ page_num' = page_num + 1
    /\ pc' = IF page_num = total_pages THEN "rescue" ELSE "extract"
    /\ UNCHANGED <<config, call, ValidatorVars, groups_in, initial_groups, ret_groups,
                   total_pages, split_results, OcrVars, CodeVars>>

\* _rescue_ambiguous_code_anchors on headers whose code segment holds no O or 0:
\* every header is replaced by its normalized text, the page indices are kept
RescueAnchors ==
    /\ pc = "rescue"
    /\ page_headers' = [i \in 1..Len(page_headers) |->
                           <<page_headers[i][1], NormalizedOrRaw(config, page_headers[i][2])>>]
    /\ pc' = "split"
    /\ UNCHANGED <<config, call, ValidatorVars, groups_in, initial_groups, ret_groups,
                   total_pages, page_num, split_results, OcrVars, CodeVars>>

\* the results of split_pdf: the whole PDF when there is at most one group,
\* else one file per group
SplitFiles(groups, pages) ==
    IF Len(groups) <= 1
    THEN << <<0, pages - 1, IF Len(groups) = 1 THEN groups[1][3] ELSE UNKNOWN>> >>
    ELSE groups

SplitPdf ==
    /\ pc = "split"
    /\ IF config.enable_pdf_splitting /\ Len(page_headers) > 0
       THEN \E initial \in {InitialGroups(config, page_headers)} :
            \E detected \in {FilterMinPages(config, _apply_context_correction(config, initial))} :
                /\ initial_groups' = initial
                /\ ret_groups' = detected
                /\ split_results' = SplitFiles(detected, total_pages)
       ELSE UNCHANGED <<initial_groups, ret_groups, split_results>>
    /\ pc' = "done"
    /\ UNCHANGED <<config, call, ValidatorVars, page_headers, groups_in, total_pages, page_num,
                   OcrVars, CodeVars>>

NextProcess == ExtractPage \/ RescueAnchors \/ SplitPdf

SpecProcess == InitProcess /\ [][NextProcess]_vars

\* the split ran: splitting enabled and at least one header read
SplitRan ==
    pc = "done" /\ config.enable_pdf_splitting /\ Len(page_headers) > 0

\* C2: with min_pages_per_split <= 1, the groups _detect_header_groups returns for
\* page headers with strictly increasing page indices are in page order, do not
\* overlap, have start <= end, hold every input page in exactly one group, and the
\* last group ends at the last input page.
C2_GroupsPartitionInputPages ==
    (SplitRan /\ config.min_pages_per_split <= 1) =>
        /\ \A k \in 1..Len(ret_groups) : ret_groups[k][1] <= ret_groups[k][2]
        /\ \A k \in 1..(Len(ret_groups) - 1) : ret_groups[k][2] < ret_groups[k + 1][1]
        /\ \A i \in 1..Len(page_headers) :
              Cardinality({k \in 1..Len(ret_groups) :
                              /\ ret_groups[k][1] <= page_headers[i][1]
                              /\ page_headers[i][1] <= ret_groups[k][2]}) = 1
        /\ Len(ret_groups) > 0
        /\ Last(ret_groups)[2] = Last(page_headers)[1]

\* an unread page, a context correction that merged a group, two groups left
C2_Witness ==
    /\ SplitRan /\ config.min_pages_per_split <= 1
    /\ Len(page_headers) < total_pages
    /\ Len(ret_groups) < Len(initial_groups)
    /\ Len(ret_groups) >= 2

\* C3: with splitting enabled and all pages processed, every page of the source PDF,
\* also one whose header came back empty, lies in some output file.
C3_EveryPageInSomeOutput ==
    (pc = "done" /\ config.enable_pdf_splitting) =>
        \A p \in 0..(total_pages - 1) :
            \E k \in 1..Len(split_results) :
                split_results[k][1] <= p /\ p <= split_results[k][2]

(***************************************************************************)
(* OCRPipeline._run_ocr_methods: the method loop and the vote              *)
(***************************************************************************)
RECURSIVE DedupFrom(_, _, _)
DedupFrom(modes, i, variants) ==
    IF i > Len(modes) THEN variants
    ELSE IF \E k \in 1..Len(variants) : variants[k] = modes[i]
         THEN DedupFrom(modes, i + 1, variants)
         ELSE DedupFrom(modes, i + 1, Append(variants, modes[i]))

\* the psm modes tried, in order, each once
_get_tesseract_configs(cfg) == DedupFrom(<<cfg.tesseract_psm_mode, 6, 7, 13>>, 1, <<>>)

methods == <<"method2", "method3", "method4", "method5">>

\* what a method returns for the text tesseract read and its confidence
MethodReturn(text, scored, confidence) ==
    IF Len(text) = 0
    THEN [text |-> NoText, score |-> -1, confidence |-> 0]
    ELSE [text |-> OrElse(scored.text, text), score |-> scored.score, confidence |-> confidence]

_method(cfg, text, confidence) ==
    MethodReturn(text, validate_and_score(cfg, text), confidence)

\* the early-exit test of the loop body
IsExcellent(cfg, r) ==
    r.score >= cfg.early_exit_score /\ r.confidence >= cfg.tesseract_confidence_threshold

\* results: the non-empty texts, in the order the methods returned them
NonEmpty(r) == Len(r.text) > 0
results(mr) == SelectSeq(mr, NonEmpty)

RECURSIVE ConfSum(_, _, _)
ConfSum(res, text, i) ==
    IF i > Len(res) THEN 0
    ELSE (IF res[i].text = text THEN res[i].confidence ELSE 0) + ConfSum(res, text, i + 1)

\* the scored_results entry of one text; weighted and avg_confidence are kept as
\* numerators over frequency: weighted = (7 * score * frequency + 3 * conf_sum) / (10 * frequency)
VoteEntry(res, text, scored) ==
    [ text |-> text,
      corrected |-> scored.text,
      score |-> scored.score,
      frequency |-> Cardinality({i \in 1..Len(res) : res[i].text = text}),
      conf_sum |-> ConfSum(res, text, 1) ]

Weighted10(e) == 7 * e.score * e.frequency + 3 * e.conf_sum

\* variant: frequency is compared before the score
VoteBelow_frequency_first(c, d) ==
    LET wc == Weighted10(c) * d.frequency
        wd == Weighted10(d) * c.frequency
    IN  IF wc # wd THEN wc < wd
        ELSE IF c.frequency # d.frequency THEN c.frequency < d.frequency
        ELSE c.score < d.score

\* the sort key (weighted, score, frequency, avg_confidence) of c is below that of d
VoteBelow(c, d) ==
    LET wc == Weighted10(c) * d.frequency
        wd == Weighted10(d) * c.frequency
        ac == c.conf_sum * d.frequency
        ad == d.conf_sum * c.frequency
    IN  IF wc # wd THEN wc < wd
        ELSE IF c.score # d.score THEN c.score < d.score
        ELSE IF c.frequency # d.frequency THEN c.frequency < d.frequency
        ELSE ac < ad

scored_results(cfg, res) ==
    {VoteEntry(res, res[i].text, validate_and_score(cfg, res[i].text)) : i \in 1..Len(res)}

\* the entries that can come first after the sort (entries with equal keys keep the
\* order of the set iteration)
VoteWinners(entries) == {c \in entries : \A d \in entries : ~VoteBelow(c, d)}

MaxOcrAttempts == 4
OcrConfig == [DefaultConfig EXCEPT !.max_ocr_attempts = MaxOcrAttempts]
OcrConfigPsm6 == [OcrConfig EXCEPT !.tesseract_psm_mode = 6]
OcrTexts == {NoText, B_TW_UET_S18010794, B_E_UUY_R40925274, B_E_UUY_R4092527}
Confidences == {60, 95}

InitOcr ==
    /\ config \in {OcrConfig, OcrConfigPsm6}
    /\ call = "_run_ocr_methods"
    /\ ValidatorIdle /\ SplitterIdle
    /\ total_pages = 0 /\ page_num = 0 /\ split_results = <<>>
    /\ pc = "methods"
    /\ psm_idx = 1 /\ method_idx = 1 /\ attempts = 0 /\ invocations = 0
    /\ early_exit = FALSE
    /\ method_results = <<>> /\ freq_ratio = <<0, 1>>
    /\ CodeIdle

\* the loop control after an iteration that did not break
NextIteration(att) ==
    IF method_idx < Len(methods)
    THEN pc' = "methods" /\ method_idx' = method_idx + 1 /\ psm_idx' = psm_idx
    ELSE IF att >= config.max_ocr_attempts \/ psm_idx = Len(_get_tesseract_configs(config))
         THEN pc' = "vote" /\ UNCHANGED <<psm_idx, method_idx>>
         ELSE pc' = "methods" /\ method_idx' = 1 /\ psm_idx' = psm_idx + 1

\* one iteration of the inner loop whose method returns
MethodReturns ==
    /\ pc = "methods"
    /\ attempts < config.max_ocr_attempts
    /\ \E text \in OcrTexts, confidence \in Confidences :
       \E r \in {_method(config, text, confidence)} :
          /\ attempts' = attempts + 1
          /\ invocations' = invocations + 1
          /\ method_results' = Append(method_results, r)
          /\ IF NonEmpty(r) /\ IsExcellent(config, r)
             THEN early_exit' = TRUE /\ pc' = "vote" /\ UNCHANGED <<psm_idx, method_idx>>
             ELSE early_exit' = early_exit /\ NextIteration(attempts + 1)
    /\ UNCHANGED <<config, call, ValidatorVars, SplitterVars, total_pages, page_num,
                   split_results, freq_ratio, CodeVars>>

\* one iteration of the inner loop whose method raises
MethodRaises ==
    /\ pc = "methods"
    /\ attempts < config.max_ocr_attempts
    /\ NextIteration(attempts)
    /\ invocations' = invocations + 1
    /\ UNCHANGED <<config, call, ValidatorVars, SplitterVars, total_pages, page_num,
                   split_results, attempts, early_exit, method_results, freq_ratio, CodeVars>>

\* the iteration that finds max_ocr_attempts reached: both loops are left
AttemptsReached ==
    /\ pc = "methods"
    /\ attempts >= config.max_ocr_attempts
    /\ pc' = "vote"
    /\ UNCHANGED <<config, call, ValidatorVars, SplitterVars, total_pages, page_num,
                   split_results, OcrVars, CodeVars>>

\* the vote and the return
Vote ==
    /\ pc = "vote"
    /\ IF Len(results(method_results)) > 0
       THEN \E res \in {results(method_results)} :
            \E best \in VoteWinners(scored_results(config, res)) :
                /\ ret_text' = (IF best.score > 0 THEN best.corrected ELSE best.text)
                /\ freq_ratio' = <<best.frequency, Len(res)>>
       ELSE ret_text' = NoText /\ freq_ratio' = <<0, 1>>
    /\ pc' = "done"
    /\ UNCHANGED <<config, call, in_header1, in_header2, threshold, ret_text2, ret_score,
                   ret_bool, SplitterVars, total_pages, page_num, split_results,
                   psm_idx, method_idx, attempts, invocations, early_exit, method_results,
                   CodeVars>>

NextOcr == MethodReturns \/ MethodRaises \/ AttemptsReached \/ Vote

SpecOcr == InitOcr /\ [][NextOcr]_vars

\* the method results that pass the early-exit test and carry text t
ExcellentWith(t) ==
    {i \in 1..Len(method_results) :
        NonEmpty(method_results[i]) /\ method_results[i].text = t
        /\ IsExcellent(config, method_results[i])}

\* C6: the method loop is left early only after at least
\* ocr_method_early_exit_min_attempts methods have run and at least
\* ocr_method_early_exit_min_confirmations of them returned the same text with
\* score >= early_exit_score and confidence >= tesseract_confidence_threshold.
C6_EarlyExitNeedsConfirmations ==
    early_exit =>
        /\ attempts >= config.ocr_method_early_exit_min_attempts
        /\ \E i \in 1..Len(method_results) :
              Cardinality(ExcellentWith(method_results[i].text))
                  >= config.ocr_method_early_exit_min_confirmations

(***************************************************************************)
(* State machine of a direct PdfSplitter._select_best_header call          *)
(***************************************************************************)
MaxHeaders == 3

S17991790 == <<"S", "1", "7", "9", "9", "1", "7", "9", "0">>
B_CHK_WEE_S17991790 == Hdr(<< <<"B">>, <<"C", "H", "K">>, <<"W", "E", "E">>, S17991790 >>)
B_HK_WFE_S17991790 == Hdr(<< <<"B">>, <<"H", "K">>, <<"W", "F", "E">>, S17991790 >>)

GroupMemberHeaders ==
    {B_TW_UET_S18010794, B_TW_UEI_S18010794, B_CHK_WEE_S17991790, B_HK_WFE_S17991790,
     B_E_UUY_R4092527, B_E_UUY_R40925274}

InitSelect ==
    /\ config \in {DefaultConfig, RangeConfig}
    /\ call = "none"
    /\ ValidatorIdle /\ SplitterIdle /\ ProcessIdle /\ OcrIdle
    /\ \E n \in 1..MaxHeaders : headers_in \in [1..n -> GroupMemberHeaders]
    /\ min_support = 0 /\ ret_info = NoInfo
    /\ AnchorIdle /\ ExtractIdle

SelectBestHeader ==
    /\ call = "none"
    /\ call' = "_select_best_header"
    /\ ret_text' = _select_best_header(config, headers_in)
    /\ UNCHANGED <<config, in_header1, in_header2, threshold, ret_text2, ret_score, ret_bool,
                   SplitterVars, ProcessVars, OcrVars, CodeVars>>

NextSelect == SelectBestHeader

SpecSelect == InitSelect /\ [][NextSelect]_vars

\* the buckets of the group: one per normalized text of a member
Buckets ==
    {Candidate(config, headers_in, NormalizedOrRaw(config, headers_in[i])) :
        i \in 1..Len(headers_in)}

\* a group of two or more members was closed and its header selected
SelectedOfGroup == call = "_select_best_header" /\ Len(headers_in) >= 2

\* c and d tie on occurrence count, strict validity and best score
TieOnCountStrictScore(c, d) ==
    c.count = d.count /\ c.strict_valid = d.strict_valid /\ c.best_score = d.best_score

\* the country segment (second of four) has a length in the configured range
CountryFits(text) ==
    LET parts == Split(text, config.expected_separator)
    IN  /\ Len(parts) = config.expected_parts
        /\ Len(parts[2]) >= config.pattern_country_min
        /\ Len(parts[2]) <= config.pattern_country_max

\* C11: for a group of two or more members the returned bucket ranks first under
\* count, strict validity, best score, then the shorter string: no bucket that ties
\* with it on count, strict validity and best score is shorter.
C11_ShorterStringRanksFirst ==
    SelectedOfGroup =>
        \A w \in Buckets, c \in Buckets :
            (w.text = ret_text /\ TieOnCountStrictScore(w, c)) => Len(w.text) <= Len(c.text)

\* C12: when two buckets tie on count, strict validity, best score and length, the
\* returned one is the lexicographically smaller text.
C12_TieReturnsSmallerText ==
    SelectedOfGroup =>
        \A w \in Buckets, c \in Buckets :
            (/\ w.text = ret_text /\ c.text # w.text
             /\ TieOnCountStrictScore(w, c) /\ Len(w.text) = Len(c.text))
            => StrLess(w.text, c.text)

\* C13: when two strictly valid buckets occur equally often and one of them has a
\* country segment within the configured length range, the returned one has it too.
C13_PrefersCountryInRange ==
    SelectedOfGroup =>
        \A w \in Buckets, c \in Buckets :
            (/\ w.text = ret_text
             /\ w.strict_valid = 1 /\ c.strict_valid = 1 /\ w.count = c.count
             /\ CountryFits(c.text))
            => CountryFits(w.text)

(***************************************************************************)
(* HeaderValidator: ambiguity of the customer code segment                 *)
(***************************************************************************)
\* dict assignment pairs[k] = v
MapPut(f, k, v) == [x \in (DOMAIN f) \cup {k} |-> IF x = k THEN v ELSE f[x]]

\* set of the elements of a list
Range(seq) == {seq[i] : i \in 1..Len(seq)}

\* HeaderValidator._parse_bidirectional_ambiguity_pairs over the "left:right" tokens
RECURSIVE PairsFrom(_, _, _)
PairsFrom(tokens, i, pairs) ==
    IF i > Len(tokens) THEN pairs
    ELSE IF Len(tokens[i][1]) # 1 \/ Len(tokens[i][2]) # 1
         THEN PairsFrom(tokens, i + 1, pairs)
         ELSE PairsFrom(tokens, i + 1,
                        MapPut(MapPut(pairs, Upper(tokens[i][1])[1], Upper(tokens[i][2])[1]),
                               Upper(tokens[i][2])[1], Upper(tokens[i][1])[1]))

_parse_bidirectional_ambiguity_pairs(mapping) == PairsFrom(mapping, 1, <<>>)

\* HeaderValidator._resolve_code_segment_index (0-based in the source, 1-based here;
\* 0 stands for None)
_resolve_code_segment_index(cfg, parts) ==
    IF Len(parts) = cfg.expected_parts THEN 3
    ELSE IF Len(parts) = cfg.min_expected_parts THEN 2
    ELSE 0

\* variant: only the first mapped position is substituted
RECURSIVE FirstVariantFrom(_, _, _)
FirstVariantFrom(text, mapping, idx) ==
    IF idx > Len(text) THEN <<>>
    ELSE IF text[idx] \in DOMAIN mapping /\ mapping[text[idx]] # text[idx]
         THEN << [text EXCEPT ![idx] = mapping[text[idx]]] >>
         ELSE FirstVariantFrom(text, mapping, idx + 1)

_build_single_char_ambiguity_variants_first(text, mapping) ==
    FirstVariantFrom(text, mapping, 1)

\* HeaderValidator._build_single_char_ambiguity_variants
RECURSIVE VariantsFrom(_, _, _, _)
VariantsFrom(text, mapping, idx, variants) ==
    IF idx > Len(text) THEN variants
    ELSE IF text[idx] \notin DOMAIN mapping
         THEN VariantsFrom(text, mapping, idx + 1, variants)
         ELSE IF [text EXCEPT ![idx] = mapping[text[idx]]] = text
                 \/ [text EXCEPT ![idx] = mapping[text[idx]]] \in Range(variants)
              THEN VariantsFrom(text, mapping, idx + 1, variants)
              ELSE VariantsFrom(text, mapping, idx + 1,
                                Append(variants, [text EXCEPT ![idx] = mapping[text[idx]]]))

_build_single_char_ambiguity_variants(text, mapping) ==
    VariantsFrom(text, mapping, 1, <<>>)

\* the result dict of inspect_code_ambiguity
CodeInfo(cfg, is_ambiguous, normalized, code, alt_codes, alt_headers, note) ==
    [ enabled |-> cfg.enable_code_ambiguity_monitor,
      is_ambiguous |-> is_ambiguous,
      normalized_header |-> normalized,
      code_segment |-> code,
      alternative_codes |-> alt_codes,
      alternative_headers |-> alt_headers,
      note |-> note ]

\* inspect_code_ambiguity once the alternative codes are built
InspectVariants(cfg, normalized, parts, code_idx, alt_codes) ==
    IF Len(alt_codes) = 0
    THEN CodeInfo(cfg, FALSE, normalized, parts[code_idx], <<>>, <<>>, "no_variant")
    ELSE CodeInfo(cfg, TRUE, normalized, parts[code_idx], alt_codes,
                  [k \in 1..Len(alt_codes) |->
                      Join([parts EXCEPT ![code_idx] = alt_codes[k]], cfg.expected_separator)],
                  "code_o0_ambiguous")

\* inspect_code_ambiguity once the code segment is located
InspectCode(cfg, normalized, parts, code_idx, pairs) ==
    IF Len(parts[code_idx]) = 0
    THEN CodeInfo(cfg, FALSE, normalized, parts[code_idx], <<>>, <<>>, "empty_code")
    ELSE IF cfg.code_ambiguity_only_mixed_alnum
            /\ ~ ((\E i \in 1..Len(parts[code_idx]) : IsAlphaChar(parts[code_idx][i]))
                  /\ (\E i \in 1..Len(parts[code_idx]) : IsDigitChar(parts[code_idx][i])))
    THEN CodeInfo(cfg, FALSE, normalized, parts[code_idx], <<>>, <<>>, "not_mixed_alnum")
    ELSE IF DOMAIN pairs = {}
    THEN CodeInfo(cfg, FALSE, normalized, parts[code_idx], <<>>, <<>>, "no_pairs")
    ELSE InspectVariants(cfg, normalized, parts, code_idx,
                         _build_single_char_ambiguity_variants(parts[code_idx], pairs))

\* inspect_code_ambiguity once the header is split
InspectParts(cfg, normalized, parts, code_idx) ==
    IF code_idx = 0
    THEN CodeInfo(cfg, FALSE, normalized, <<>>, <<>>, <<>>, "unsupported_format")
    ELSE InspectCode(cfg, normalized, parts, code_idx,
                     _parse_bidirectional_ambiguity_pairs(cfg.code_ambiguity_pairs))

\* inspect_code_ambiguity once the text is normalized
InspectNormalized(cfg, normalized) ==
    IF Len(normalized) = 0
    THEN CodeInfo(cfg, FALSE, <<>>, <<>>, <<>>, <<>>, "empty_normalized")
    ELSE InspectParts(cfg, normalized, Split(normalized, cfg.expected_separator),
                      _resolve_code_segment_index(cfg, Split(normalized, cfg.expected_separator)))

\* HeaderValidator.inspect_code_ambiguity
inspect_code_ambiguity(cfg, text) ==
    IF ~ cfg.enable_code_ambiguity_monitor
    THEN CodeInfo(cfg, FALSE, <<>>, <<>>, <<>>, <<>>, "monitor_disabled")
    ELSE InspectNormalized(cfg, validate_and_score(cfg, text).text)

\* variant: the configured minimum is taken as it is
RequiredSupport_raw(min_sup) == min_sup

\* metadata["min_support"] = max(1, int(min_support))
RequiredSupport(min_sup) == Max2(1, min_sup)

\* normalized_candidates: empty candidates are skipped
RECURSIVE NormalizedCandidatesFrom(_, _, _)
NormalizedCandidatesFrom(cfg, candidate_headers, i) ==
    IF i > Len(candidate_headers) THEN <<>>
    ELSE IF Len(candidate_headers[i]) = 0
         THEN NormalizedCandidatesFrom(cfg, candidate_headers, i + 1)
         ELSE <<NormalizedOrRaw(cfg, candidate_headers[i])>>
              \o NormalizedCandidatesFrom(cfg, candidate_headers, i + 1)

\* support_map[alt]
SupportOf(alt, normalized_candidates) ==
    Cardinality({i \in 1..Len(normalized_candidates) : normalized_candidates[i] = alt})

\* max(support_map.items(), key=support): the first key of the dict with the largest
\* support, keys in the order of their first occurrence in alternatives
BestAlternative(alternatives, normalized_candidates) ==
    alternatives[CHOOSE k \in 1..Len(alternatives) :
        /\ \A j \in 1..Len(alternatives) :
              SupportOf(alternatives[j], normalized_candidates)
                 <= SupportOf(alternatives[k], normalized_candidates)
        /\ \A j \in 1..(k - 1) :
              SupportOf(alternatives[j], normalized_candidates)
                 < SupportOf(alternatives[k], normalized_candidates)]

Metadata(applied, base_header, resolved_header, supports, min_sup, reason) ==
    [ applied |-> applied,
      base_header |-> base_header,
      resolved_header |-> resolved_header,
      supports |-> supports,
      min_support |-> RequiredSupport(min_sup),
      reason |-> reason ]

\* resolve_code_ambiguity_by_support once the best alternative is known
ResolveBest(base_header, alternatives, normalized_candidates, min_sup, best_header) ==
    IF SupportOf(best_header, normalized_candidates) >= RequiredSupport(min_sup)
    THEN Metadata(TRUE, base_header, best_header,
                  [a \in Range(alternatives) |-> SupportOf(a, normalized_candidates)], min_sup,
                  <<"support", SupportOf(best_header, normalized_candidates)>>)
    ELSE Metadata(FALSE, base_header, base_header,
                  [a \in Range(alternatives) |-> SupportOf(a, normalized_candidates)], min_sup,
                  <<"insufficient_support", SupportOf(best_header, normalized_candidates)>>)

\* resolve_code_ambiguity_by_support once the base header is inspected
ResolveInspected(cfg, base_header, candidate_headers, min_sup, info) ==
    IF ~ info.is_ambiguous
    THEN Metadata(FALSE, base_header, base_header, <<>>, min_sup, <<"no_ambiguity">>)
    ELSE IF Len(info.alternative_headers) = 0
    THEN Metadata(FALSE, base_header, base_header, <<>>, min_sup, <<"no_alternative_headers">>)
    ELSE ResolveBest(base_header, info.alternative_headers,
                     NormalizedCandidatesFrom(cfg, candidate_headers, 1), min_sup,
                     BestAlternative(info.alternative_headers,
                                     NormalizedCandidatesFrom(cfg, candidate_headers, 1)))

\* HeaderValidator.resolve_code_ambiguity_by_support: the metadata; the returned header
\* is its resolved_header
resolve_code_ambiguity_by_support(cfg, base_header, candidate_headers, min_sup) ==
    ResolveInspected(cfg, base_header, candidate_headers, min_sup,
                     inspect_code_ambiguity(cfg, base_header))

(***************************************************************************)
(* State machine of the code-ambiguity calls of the validator              *)
(***************************************************************************)
MaxCandidates == 2
MaxSupport == 2

S18020267 == <<"S", "1", "8", "0", "2", "0", "2", "6", "7">>
CodeHeader(code) == Hdr(<< <<"B">>, <<"F", "D">>, code, S18020267 >>)
B_FD_020H_S18020267 == CodeHeader(<<"0", "2", "0", "H">>)
B_FD_02OH_S18020267 == CodeHeader(<<"0", "2", "O", "H">>)
B_FD_O20H_S18020267 == CodeHeader(<<"O", "2", "0", "H">>)

BaseHeaders ==
    {B_FD_020H_S18020267, B_FD_02OH_S18020267,
     CodeHeader(<<"A", "B", "C", "D">>), CodeHeader(<<"A", "1", "B", "C">>),
     CodeHeader(<<"0", "0", "0", "0">>),
     Hdr(<< <<"B">>, <<"0", "I">>, S18020267 >>),
     S18020267, NoText}

CandidateHeaders ==
    {B_FD_02OH_S18020267, B_FD_O20H_S18020267, B_FD_02OH_S18020267 \o <<" ">>, NoText}

MonitorOffConfig == [DefaultConfig EXCEPT !.enable_code_ambiguity_monitor = FALSE]
AnyCodeConfig == [DefaultConfig EXCEPT !.code_ambiguity_only_mixed_alnum = FALSE]
CodeConfigs == {DefaultConfig, MonitorOffConfig, AnyCodeConfig}

InitCode ==
    /\ config \in CodeConfigs
    /\ call = "none"
    /\ in_header1 \in BaseHeaders
    /\ in_header2 = NoText /\ threshold = 0
    /\ ret_text = NoText /\ ret_text2 = NoText /\ ret_score = 0 /\ ret_bool = FALSE
    /\ SplitterIdle /\ ProcessIdle /\ OcrIdle
    /\ \E n \in 0..MaxCandidates : headers_in \in [1..n -> CandidateHeaders]
    /\ min_support \in 0..MaxSupport
    /\ ret_info = NoInfo
    /\ AnchorIdle /\ ExtractIdle

InspectCodeAmbiguity ==
    /\ call = "none"
    /\ call' = "inspect_code_ambiguity"
    /\ ret_info' = inspect_code_ambiguity(config, in_header1)
    /\ UNCHANGED <<config, ValidatorVars, SplitterVars, ProcessVars, OcrVars,
                   headers_in, min_support, AnchorVars, ExtractVars>>

ResolveCodeAmbiguityBySupport ==
    /\ call = "none"
    /\ call' = "resolve_code_ambiguity_by_support"
    /\ \E metadata \in {resolve_code_ambiguity_by_support(config, in_header1, headers_in,
                                                          min_support)} :
          /\ ret_text' = metadata.resolved_header
          /\ ret_info' = metadata
    /\ UNCHANGED <<config, in_header1, in_header2, threshold, ret_text2, ret_score, ret_bool,
                   SplitterVars, ProcessVars, OcrVars, headers_in, min_support, AnchorVars,
                   ExtractVars>>

NextCode == InspectCodeAmbiguity \/ ResolveCodeAmbiguityBySupport

SpecCode == InitCode /\ [][NextCode]_vars

\* resolve_code_ambiguity_by_support has returned
Resolved == call = "resolve_code_ambiguity_by_support"

\* what inspect_code_ambiguity says of the base header
BaseInfo == inspect_code_ambiguity(config, in_header1)

\* number of non-empty candidates whose normalized text is alt
HeaderSupport(alt) ==
    Cardinality({i \in 1..Len(headers_in) :
                    headers_in[i] # NoText /\ NormalizedOrRaw(config, headers_in[i]) = alt})

\* the single-substitution alternatives of the base header matched by at least
\* required candidates
SupportedAlternatives(required) ==
    {a \in Range(BaseInfo.alternative_headers) : HeaderSupport(a) >= required}

\* C14 (as stated): an alternative header is returned with applied = TRUE iff the base
\* header is code-ambiguous and some alternative is matched by at least min_support
\* normalized candidates; otherwise base_header is returned with applied = FALSE and a
\* reason.
C14_AppliedIffSupportMeetsMinSupport ==
    Resolved =>
        /\ ret_info.applied <=>
              (BaseInfo.is_ambiguous /\ SupportedAlternatives(min_support) # {})
        /\ ret_info.applied => ret_text \in SupportedAlternatives(min_support)
        /\ ~ ret_info.applied => (ret_text = in_header1 /\ Len(ret_info.reason) > 0)

\* C14 (amended): the support an alternative needs is max(1, min_support): a minimum
\* of 0 still asks for one supporting candidate.
C14_AppliedIffSupportMeetsEffectiveMinimum ==
    Resolved =>
        /\ ret_info.applied <=>
              (BaseInfo.is_ambiguous /\ SupportedAlternatives(Max2(1, min_support)) # {})
        /\ ret_info.applied =>
              (ret_text \in SupportedAlternatives(Max2(1, min_support)) /\ ret_text # in_header1)
        /\ ~ ret_info.applied => (ret_text = in_header1 /\ Len(ret_info.reason) > 0)

\* an alternative supported by two candidates is applied under min_support = 2
C14_Witness ==
    /\ Resolved /\ min_support = 2 /\ in_header1 = B_FD_020H_S18020267
    /\ ret_info.applied /\ ret_text = B_FD_02OH_S18020267

\* inspect_code_ambiguity has returned
Inspected == call = "inspect_code_ambiguity"

\* the segments of the normalized header and the place of its code segment
NormalizedParts == Split(validate_and_score(config, in_header1).text, config.expected_separator)

CodePlace ==
    IF Len(NormalizedParts) = config.expected_parts THEN 3
    ELSE IF Len(NormalizedParts) = config.min_expected_parts THEN 2
    ELSE 0

\* the partner of every character of the configured pairs, in both directions
PairMap == _parse_bidirectional_ambiguity_pairs(config.code_ambiguity_pairs)

HasLetterAndDigit(code) ==
    /\ \E i \in 1..Len(code) : IsAlphaChar(code[i])
    /\ \E i \in 1..Len(code) : IsDigitChar(code[i])

\* the strings obtained from code by replacing one mapped position by its partner
SingleSubstitutions(code) ==
    {[code EXCEPT ![i] = PairMap[code[i]]] : i \in {j \in 1..Len(code) : code[j] \in DOMAIN PairMap}}

\* the header shape and code segment asked for
CodeLooksAmbiguous ==
    /\ CodePlace # 0
    /\ config.code_ambiguity_only_mixed_alnum => HasLetterAndDigit(NormalizedParts[CodePlace])
    /\ \E i \in 1..Len(NormalizedParts[CodePlace]) : NormalizedParts[CodePlace][i] \in DOMAIN PairMap

\* what an ambiguous result lists: exactly the single substitutions, each once, and
\* headers that differ from the normalized header in the code segment only
AlternativesAreSingleSubstitutions ==
    ret_info.is_ambiguous =>
        /\ Range(ret_info.alternative_codes) = SingleSubstitutions(NormalizedParts[CodePlace])
        /\ Len(ret_info.alternative_codes) = Cardinality(Range(ret_info.alternative_codes))
        /\ Len(ret_info.alternative_headers) = Len(ret_info.alternative_codes)
        /\ \A k \in 1..Len(ret_info.alternative_headers) :
              /\ Split(ret_info.alternative_headers[k], config.expected_separator)
                    = [NormalizedParts EXCEPT ![CodePlace] = ret_info.alternative_codes[k]]
              /\ ret_info.alternative_codes[k] # NormalizedParts[CodePlace]

\* C15 (as stated): is_ambiguous iff the normalized header has expected_parts or
\* min_expected_parts segments and its code segment is mixed alphanumeric (when
\* configured) and holds a character of the pair map; then the alternatives are exactly
\* the single substitutions and differ from the header in the code segment only.
C15_AmbiguousIffCodeLooksAmbiguous ==
    Inspected =>
        /\ ret_info.is_ambiguous <=> CodeLooksAmbiguous
        /\ AlternativesAreSingleSubstitutions

\* C15 (amended): the same, provided the ambiguity monitor is enabled; with the monitor
\* disabled nothing is ever reported ambiguous.
C15_AmbiguousIffMonitorOnAndCodeLooksAmbiguous ==
    Inspected =>
        /\ ret_info.is_ambiguous <=>
              (config.enable_code_ambiguity_monitor /\ CodeLooksAmbiguous)
        /\ AlternativesAreSingleSubstitutions

\* an ambiguous code with two mapped positions was inspected
C15_Witness ==
    /\ Inspected /\ in_header1 = B_FD_020H_S18020267 /\ ret_info.is_ambiguous
    /\ Len(ret_info.alternative_codes) = 2

(***************************************************************************)
(* PDFTextExtractorV3: code anchors, harmonization and anchor rescue       *)
(*                                                                         *)
(* The quality flags of a page are a list of flags [name, reason]; the     *)
(* source joins them into one string "name:reason;..." and tests it with   *)
(* the substring operator.                                                 *)
(***************************************************************************)
\* "glyph_disambiguated" in flags
IsGlyphDisambiguated(flags) ==
    \E k \in 1..Len(flags) : flags[k].name = "glyph_disambiguated"

\* "glyph_disambiguation_skipped:no_char_boxes" in flags
IsSkippedNoCharBoxes(flags) ==
    \E k \in 1..Len(flags) :
        flags[k].name = "glyph_disambiguation_skipped" /\ flags[k].reason = "no_char_boxes"

\* "0" in code or "O" in code
HasZeroOrO(code) == \E i \in 1..Len(code) : code[i] \in {"0", "O"}

\* code.replace("O", "0")
CodeSignature(code) == [i \in 1..Len(code) |-> IF code[i] = "O" THEN "0" ELSE code[i]]

\* PDFTextExtractorV3._resolve_code_index (1-based; 0 stands for None)
_resolve_code_index(cfg, parts) ==
    IF Len(parts) = cfg.expected_parts THEN 3
    ELSE IF Len(parts) = cfg.min_expected_parts THEN 2
    ELSE 0

\* the tuple anchor_parts[:code_idx] + anchor_parts[code_idx + 1:] after the signature
\* was written to anchor_parts[code_idx]
AnchorTuple(anchor_parts, code_idx) ==
    <<Len(anchor_parts), code_idx>>
        \o SubSeq(anchor_parts, 1, code_idx - 1)
        \o SubSeq(anchor_parts, code_idx + 1, Len(anchor_parts))

\* PDFTextExtractorV3._build_code_anchor (<<>> stands for None)
_build_code_anchor(parts, code_idx, code_signature) ==
    IF code_idx > Len(parts) THEN <<>>
    ELSE AnchorTuple([parts EXCEPT ![code_idx] = code_signature], code_idx)

\* what both passes compute of one normalized header: its segments, the place and
\* text of its code segment and its anchor
PageEntry(norm, parts, code_idx) ==
    [ norm |-> norm,
      parts |-> parts,
      code_idx |-> code_idx,
      code |-> IF code_idx = 0 THEN <<>> ELSE parts[code_idx],
      anchor |-> IF code_idx = 0 THEN <<>>
                 ELSE _build_code_anchor(parts, code_idx, CodeSignature(parts[code_idx])) ]

PageEntryOfParts(cfg, norm, parts) == PageEntry(norm, parts, _resolve_code_index(cfg, parts))

PageEntryOf(cfg, norm) == PageEntryOfParts(cfg, norm, Split(norm, cfg.expected_separator))

\* normalized_cache, with the entry of every page
PageEntries(cfg, headers) ==
    [i \in 1..Len(headers) |-> PageEntryOf(cfg, NormalizedOrRaw(cfg, headers[i][2]))]

\* pages that enter variants_by_anchor
HasVariant(entries, i) ==
    entries[i].code_idx # 0 /\ HasZeroOrO(entries[i].code) /\ entries[i].anchor # <<>>

\* variants_by_anchor[anchor][code]
VariantBucket(entries, flags, anchor, code) ==
    [ code |-> code,
      count |-> Cardinality({i \in 1..Len(entries) :
                    HasVariant(entries, i) /\ entries[i].anchor = anchor
                    /\ entries[i].code = code}),
      glyph |-> Cardinality({i \in 1..Len(entries) :
                    HasVariant(entries, i) /\ entries[i].anchor = anchor
                    /\ entries[i].code = code /\ IsGlyphDisambiguated(flags[i])}) ]

\* variants_by_anchor[anchor].items()
CodeMap(entries, flags, anchor) ==
    {VariantBucket(entries, flags, anchor, entries[i].code) :
        i \in {j \in 1..Len(entries) : HasVariant(entries, j) /\ entries[j].anchor = anchor}}

\* the sort key (-glyph, -count, code)
VariantBefore(a, b) ==
    \/ a.glyph > b.glyph
    \/ a.glyph = b.glyph /\ a.count > b.count
    \/ a.glyph = b.glyph /\ a.count = b.count /\ StrLess(a.code, b.code)

\* ranked[0] of a set of buckets
FirstRanked(code_map) ==
    CHOOSE a \in code_map : \A b \in code_map \ {a} : VariantBefore(a, b)

\* min_glyph_support = max(1, config value)
MinGlyphSupport(cfg) == Max2(1, cfg.code_anchor_harmonize_min_glyph_support)

\* canonical_by_anchor.get(anchor) given ranked[0] (<<>> stands for a missing key)
CanonicalOfRanked(cfg, code_map, top) ==
    IF top.glyph < MinGlyphSupport(cfg) THEN <<>>
    ELSE IF FirstRanked(code_map \ {top}).glyph = top.glyph
            /\ FirstRanked(code_map \ {top}).count = top.count THEN <<>>
    ELSE top.code

CanonicalOfMap(cfg, code_map) ==
    IF Cardinality(code_map) <= 1 THEN <<>>
    ELSE CanonicalOfRanked(cfg, code_map, FirstRanked(code_map))

CanonicalOf(cfg, entries, flags, anchor) ==
    CanonicalOfMap(cfg, CodeMap(entries, flags, anchor))

\* the second loop of _harmonize_code_ambiguity_headers for one page
HarmonizedPage(cfg, entry, canonical) ==
    IF entry.code_idx = 0 THEN entry.norm
    ELSE IF Len(canonical) > 0 /\ entry.code # canonical
         THEN Join([entry.parts EXCEPT ![entry.code_idx] = canonical], cfg.expected_separator)
         ELSE entry.norm

\* PDFTextExtractorV3._harmonize_code_ambiguity_headers: the updated headers
HarmonizedHeaders(cfg, headers, flags, entries) ==
    [i \in 1..Len(headers) |->
        <<headers[i][1],
          HarmonizedPage(cfg, entries[i],
                         IF entries[i].code_idx = 0 THEN <<>>
                         ELSE CanonicalOf(cfg, entries, flags, entries[i].anchor))>>]

\* the updates dict: page index -> new header, for the pages that were rewritten
UpdatesOf(entries, new_headers) ==
    [p \in {new_headers[i][1] : i \in {j \in 1..Len(new_headers) :
                                          new_headers[j][2] # entries[j].norm}} |->
        (CHOOSE h \in Range(new_headers) : h[1] = p)[2]]

\* the rescue OCR is not part of the sources: it returns the base header or one of its
\* single-substitution alternatives, as picked
RescuedHeader(cfg, base_header, pick, info) ==
    IF pick = 0 \/ ~ info.is_ambiguous THEN base_header
    ELSE info.alternative_headers[Min2(pick, Len(info.alternative_headers))]

rescue_ambiguous_header(cfg, base_header, pick) ==
    RescuedHeader(cfg, base_header, pick, inspect_code_ambiguity(cfg, base_header))

\* pages whose normalized header inspect_code_ambiguity reports ambiguous
AmbiguousPages(cfg, entries) ==
    {i \in 1..Len(entries) : inspect_code_ambiguity(cfg, entries[i].norm).is_ambiguous}

\* pages that enter anchors
IsRescueItem(entries, ambiguous, i) ==
    i \in ambiguous /\ entries[i].code_idx # 0 /\ entries[i].anchor # <<>>

\* anchors[anchor]: indices of its items, in page order
AnchorItems(entries, ambiguous, anchor) ==
    {i \in 1..Len(entries) : IsRescueItem(entries, ambiguous, i) /\ entries[i].anchor = anchor}

\* the guards in front of the rescue call
RescueWanted(cfg, flags, items) ==
    /\ ~ \E i \in items : IsGlyphDisambiguated(flags[i])
    /\ cfg.code_anchor_rescue_only_on_no_char_boxes
          => \E i \in items : IsSkippedNoCharBoxes(flags[i])

\* candidate_page_idx, as an index into the page list
CandidateOf(flags, items) ==
    IF \E i \in items : IsSkippedNoCharBoxes(flags[i])
    THEN SetMin({i \in items : IsSkippedNoCharBoxes(flags[i])})
    ELSE SetMin(items)

\* the code segment the rescue puts on the pages of the anchor (<<>>: no change)
RescuedCodeOf(cfg, base_header, rescued) ==
    IF rescued = base_header THEN <<>>
    ELSE PageEntryOf(cfg, rescued).code

AnchorRescuedCode(cfg, entries, flags, pick, items) ==
    IF ~ RescueWanted(cfg, flags, items) THEN <<>>
    ELSE RescuedCodeOf(cfg, entries[CandidateOf(flags, items)].norm,
                       rescue_ambiguous_header(cfg, entries[CandidateOf(flags, items)].norm, pick))

\* the propagation loop for one page
RescuedPage(cfg, entry, rescued_code) ==
    IF Len(rescued_code) = 0 \/ entry.code = rescued_code THEN entry.norm
    ELSE Join([entry.parts EXCEPT ![entry.code_idx] = rescued_code], cfg.expected_separator)

\* PDFTextExtractorV3._rescue_ambiguous_code_anchors: the updated headers
RescuedHeaders(cfg, headers, flags, pick, entries, ambiguous) ==
    [i \in 1..Len(headers) |->
        <<headers[i][1],
          IF IsRescueItem(entries, ambiguous, i)
          THEN RescuedPage(cfg, entries[i],
                           AnchorRescuedCode(cfg, entries, flags, pick,
                                             AnchorItems(entries, ambiguous, entries[i].anchor)))
          ELSE entries[i].norm>>]

\* page indices the rescue OCR ran on: the candidate of every anchor that passed the
\* guards
RescueCalls(cfg, headers, flags, entries, ambiguous) ==
    {headers[i][1] : i \in {j \in 1..Len(entries) :
        /\ IsRescueItem(entries, ambiguous, j)
        /\ RescueWanted(cfg, flags, AnchorItems(entries, ambiguous, entries[j].anchor))
        /\ j = CandidateOf(flags, AnchorItems(entries, ambiguous, entries[j].anchor))}}

(***************************************************************************)
(* State machine of direct calls of the two anchor passes                  *)
(***************************************************************************)
MaxAnchorPages == 3
MaxPick == 2

B_FD_A0BC_S18020267 == CodeHeader(<<"A", "0", "B", "C">>)
B_TW_020H_S18020267 == Hdr(<< <<"B">>, <<"T", "W">>, <<"0", "2", "0", "H">>, S18020267 >>)

AnchorHeaders ==
    {B_FD_020H_S18020267, B_FD_02OH_S18020267, B_FD_A0BC_S18020267, B_TW_020H_S18020267}

NoFlags == <<>>
GlyphDisambiguated == << [name |-> "glyph_disambiguated", reason |-> "char_svm"] >>
SkippedNoCharBoxes == << [name |-> "glyph_disambiguation_skipped", reason |-> "no_char_boxes"] >>
PageFlags == {NoFlags, GlyphDisambiguated, SkippedNoCharBoxes}

MinGlyph2Config == [DefaultConfig EXCEPT !.code_anchor_harmonize_min_glyph_support = 2]
RescueAnyConfig == [DefaultConfig EXCEPT !.code_anchor_rescue_only_on_no_char_boxes = FALSE]
AnchorConfigs == {DefaultConfig, MinGlyph2Config, RescueAnyConfig}

InitAnchor ==
    /\ config \in AnchorConfigs
    /\ call = "none"
    /\ ValidatorIdle
    /\ \E n \in 1..MaxAnchorPages :
          /\ \E hs \in [1..n -> AnchorHeaders] : page_headers = [i \in 1..n |-> <<i - 1, hs[i]>>]
          /\ page_quality_flags \in [1..n -> PageFlags]
    /\ groups_in = <<>> /\ initial_groups = <<>> /\ ret_groups = <<>>
    /\ ProcessIdle /\ OcrIdle
    /\ headers_in = <<>> /\ min_support = 0 /\ ret_info = NoInfo
    /\ updated_headers = <<>> /\ updates = <<>> /\ rescue_calls = {}
    /\ rescue_pick \in 0..MaxPick
    /\ ExtractIdle

HarmonizeCodeAmbiguityHeaders ==
    /\ call = "none"
    /\ call' = "_harmonize_code_ambiguity_headers"
    /\ \E entries \in {PageEntries(config, page_headers)} :
       \E new_headers \in {HarmonizedHeaders(config, page_headers, page_quality_flags, entries)} :
          /\ updated_headers' = new_headers
          /\ updates' = UpdatesOf(entries, new_headers)
    /\ UNCHANGED <<config, ValidatorVars, SplitterVars, ProcessVars, OcrVars,
                   headers_in, min_support, ret_info, page_quality_flags, rescue_pick,
                   rescue_calls, ExtractVars>>

RescueAmbiguousCodeAnchors ==
    /\ call = "none"
    /\ call' = "_rescue_ambiguous_code_anchors"
    /\ IF ~ config.enable_code_anchor_rescue_pass
       THEN /\ updated_headers' = page_headers
            /\ updates' = <<>>
            /\ rescue_calls' = {}
       ELSE \E entries \in {PageEntries(config, page_headers)} :
            \E ambiguous \in {AmbiguousPages(config, entries)} :
            \E new_headers \in {RescuedHeaders(config, page_headers, page_quality_flags,
                                               rescue_pick, entries, ambiguous)} :
               /\ updated_headers' = new_headers
               /\ updates' = UpdatesOf(entries, new_headers)
               /\ rescue_calls' = RescueCalls(config, page_headers, page_quality_flags,
                                              entries, ambiguous)
    /\ UNCHANGED <<config, ValidatorVars, SplitterVars, ProcessVars, OcrVars,
                   headers_in, min_support, ret_info, page_quality_flags, rescue_pick,
                   ExtractVars>>

NextAnchor == HarmonizeCodeAmbiguityHeaders \/ RescueAmbiguousCodeAnchors

SpecAnchor == InitAnchor /\ [][NextAnchor]_vars

\* a pass has returned
Harmonized == call = "_harmonize_code_ambiguity_headers"
Rescued == call = "_rescue_ambiguous_code_anchors"

PageList == 1..Len(page_headers)

\* segments and code segment of the header page i came in with / went out with
InParts(i) == Split(page_headers[i][2], config.expected_separator)
OutParts(i) == Split(updated_headers[i][2], config.expected_separator)
InCode(i) == InParts(i)[_resolve_code_index(config, InParts(i))]
OutCode(i) == OutParts(i)[_resolve_code_index(config, OutParts(i))]

\* the anchor of the specification: the non-code segments plus the code signature
NonCodeSegments(parts) ==
    [parts EXCEPT ![_resolve_code_index(config, parts)] = <<>>]

SameAnchor(i, j) ==
    /\ NonCodeSegments(InParts(i)) = NonCodeSegments(InParts(j))
    /\ CodeSignature(InCode(i)) = CodeSignature(InCode(j))

AnchorPages(i) == {j \in PageList : SameAnchor(i, j)}

\* page i was left as it came in, with no entry in updates
PageUnchanged(i) ==
    /\ updated_headers[i] = page_headers[i]
    /\ page_headers[i][1] \notin DOMAIN updates

\* pages of the anchor of i that carry the spelling code, and those of them flagged
\* glyph_disambiguated
SpellingPages(i, code) == {j \in AnchorPages(i) : InCode(j) = code}
GlyphPages(i, code) ==
    {j \in SpellingPages(i, code) : IsGlyphDisambiguated(page_quality_flags[j])}
Spellings(i) == {InCode(j) : j \in AnchorPages(i)}

\* code ranks at least as high as other: more glyph evidence, then more pages
RanksAtLeast(i, code, other) ==
    \/ Cardinality(GlyphPages(i, code)) > Cardinality(GlyphPages(i, other))
    \/ /\ Cardinality(GlyphPages(i, code)) = Cardinality(GlyphPages(i, other))
       /\ Cardinality(SpellingPages(i, code)) >= Cardinality(SpellingPages(i, other))

TopSpellings(i) == {c \in Spellings(i) : \A d \in Spellings(i) : RanksAtLeast(i, c, d)}

NoGlyphSupport(i) ==
    \A c \in Spellings(i) :
        Cardinality(GlyphPages(i, c)) < config.code_anchor_harmonize_min_glyph_support

\* C16: harmonization leaves every page of an anchor unchanged, with no entry in
\* updates, when the anchor has one code spelling, when no spelling has the minimum
\* number of pages flagged glyph_disambiguated, or when the two top spellings are tied.
C16_UndecidedAnchorsUnchanged ==
    Harmonized =>
        \A i \in PageList :
            (\/ Cardinality(Spellings(i)) = 1
             \/ NoGlyphSupport(i)
             \/ Cardinality(TopSpellings(i)) >= 2)
            => PageUnchanged(i)

\* C17: when an anchor has several spellings and the one with the strongest glyph
\* support meets the minimum without a tie, every page of the anchor carries that
\* spelling after harmonization, and updates holds exactly the pages that changed.
C17_DecidedAnchorsCarryTopSpelling ==
    Harmonized =>
        /\ \A i \in PageList :
              (/\ Cardinality(Spellings(i)) >= 2
               /\ ~ NoGlyphSupport(i)
               /\ Cardinality(TopSpellings(i)) = 1)
              => OutCode(i) \in TopSpellings(i)
        /\ DOMAIN updates =
              {page_headers[i][1] : i \in {j \in PageList : updated_headers[j] # page_headers[j]}}
        /\ \A i \in PageList :
              page_headers[i][1] \in DOMAIN updates
                 => updates[page_headers[i][1]] = updated_headers[i][2]

\* C18: harmonization and anchor rescue only ever replace the code segment of a page
\* by a spelling with the same canonical signature (O read as 0), never by the
\* unrelated code of a page that shares the other segments.
C18_ReplacedCodeKeepsSignature ==
    (Harmonized \/ Rescued) =>
        \A i \in PageList : CodeSignature(OutCode(i)) = CodeSignature(InCode(i))

\* the anchor of page i got no glyph evidence: no page flagged glyph_disambiguated
\* and at least one flagged glyph_disambiguation_skipped:no_char_boxes
WithoutGlyphEvidence(i) ==
    /\ \A j \in AnchorPages(i) : ~ IsGlyphDisambiguated(page_quality_flags[j])
    /\ \E j \in AnchorPages(i) : IsSkippedNoCharBoxes(page_quality_flags[j])

\* page index p (0-based) as an index of the page list
PageAt(p) == CHOOSE i \in PageList : page_headers[i][1] = p

\* what the rescue returned when it ran on page index p
RescueReading(p) == rescue_ambiguous_header(config, page_headers[PageAt(p)][2], rescue_pick)

\* C19: the rescue runs at most once per anchor and only for anchors without glyph
\* evidence; pages of every other anchor, and all pages when the rescue returns the
\* base header, are returned unchanged with no updates; a different spelling returned
\* by the rescue is carried by every page of its anchor.
C19_RescueOnlyWithoutGlyphEvidence ==
    Rescued =>
        /\ \A p \in rescue_calls, q \in rescue_calls :
              p # q => ~ SameAnchor(PageAt(p), PageAt(q))
        /\ \A p \in rescue_calls : WithoutGlyphEvidence(PageAt(p))
        /\ \A i \in PageList : (~ WithoutGlyphEvidence(i) \/ rescue_pick = 0) => PageUnchanged(i)
        /\ \A p \in rescue_calls : \A i \in AnchorPages(PageAt(p)) :
              RescueReading(p) # page_headers[PageAt(p)][2]
                 => OutCode(i) = PageEntryOf(config, RescueReading(p)).code

(***************************************************************************)
(* Header extraction on a host without Tesseract                           *)
(*                                                                         *)
(* Confidences are kept in percent as integers; the weighted sums of the   *)
(* ensemble vote are kept in tenths (0.6 * score + 0.4 * conf is           *)
(* 6 * score + 4 * conf).                                                  *)
(***************************************************************************)
\* _run_ocr_methods when self._tesseract_available is false: text, the one entry of the
\* method results, frequency ratio
TesseractNotAvailable ==
    [ text |-> NoText,
      method_results |-> << [method |-> "tesseract", text |-> NoText, score |-> -1,
                             error |-> "tesseract_not_available"] >>,
      freq_ratio |-> 0 ]

\* the scales extract_text_with_adaptive_rendering goes through
RenderScales(cfg) ==
    IF cfg.adaptive_rendering
    THEN <<cfg.initial_render_scale, 3, cfg.max_render_scale>>
    ELSE <<cfg.max_render_scale>>

\* the scale loop of extract_text_with_adaptive_rendering: best text and best score,
\* every scale giving the same reading
RECURSIVE ScaleLoop(_, _, _, _, _)
ScaleLoop(cfg, scales, k, reading, best) ==
    IF k > Len(scales) THEN best
    ELSE IF validate_and_score(cfg, reading.text).score >= cfg.early_exit_score
            \/ validate_and_score(cfg, reading.text).score >= cfg.score_threshold_for_escalation
         THEN (IF validate_and_score(cfg, reading.text).score > best.score
               THEN validate_and_score(cfg, reading.text) ELSE best)
         ELSE ScaleLoop(cfg, scales, k + 1, reading,
                        IF validate_and_score(cfg, reading.text).score > best.score
                        THEN validate_and_score(cfg, reading.text) ELSE best)

\* sum of the score entries of the method results
RECURSIVE ConfSumOfScores(_, _)
ConfSumOfScores(tess_results, k) ==
    IF k > Len(tess_results) THEN 0
    ELSE tess_results[k].score + ConfSumOfScores(tess_results, k + 1)

\* the entries of the method results that carry a confidence, and those of them whose
\* confidence is not negative
HasConfidence(r) == "confidence" \in DOMAIN r
NotNegativeConfidence(r) == r.confidence >= 0
confidences(tess_results) ==
    SelectSeq(SelectSeq(tess_results, HasConfidence), NotNegativeConfidence)

RECURSIVE SumOfConfidences(_, _)
SumOfConfidences(confs, k) ==
    IF k > Len(confs) THEN 0
    ELSE confs[k].confidence + SumOfConfidences(confs, k + 1)

\* _calculate_tesseract_confidence: the average of the confidences; for results without
\* one, the average score divided by 1.5, clamped to 0..100 (floor of the quotient)
_calculate_tesseract_confidence(tess_results) ==
    IF Len(tess_results) = 0 THEN 0
    ELSE IF Len(confidences(tess_results)) > 0
    THEN SumOfConfidences(confidences(tess_results), 1) \div Len(confidences(tess_results))
    ELSE Min2(100, Max2(0, (2 * ConfSumOfScores(tess_results, 1))
                              \div (3 * Len(tess_results))))

\* OCRPipeline._ensemble_vote
_ensemble_vote(cfg, tesseract_text, paddle_text, tesseract_conf, paddle_conf) ==
    IF tesseract_text = paddle_text THEN tesseract_text
    ELSE IF 6 * validate_and_score(cfg, paddle_text).score + 4 * paddle_conf
               > 6 * validate_and_score(cfg, tesseract_text).score + 4 * tesseract_conf
         THEN validate_and_score(cfg, paddle_text).text
         ELSE validate_and_score(cfg, tesseract_text).text

\* the method results with PaddleOCR's reading added
PaddleEntry(paddle) == [method |-> "paddleocr", text |-> paddle.text, confidence |-> paddle.conf]

\* what _run_ocr_with_paddleocr_fallback returns (its freq_ratio is always 0.0)
FallbackReturn(text, all_method_results, info) ==
    [text |-> text, method_results |-> all_method_results, freq_ratio |-> 0, info |-> info]

\* variant: an empty reading of PaddleOCR goes to the vote like any other
FallbackWithPaddle_votes_on_empty(cfg, tesseract_text, tess_results, tesseract_conf, paddle) ==
    IF paddle.raises THEN FallbackReturn(tesseract_text, tess_results, "error")
    ELSE FallbackReturn(_ensemble_vote(cfg, tesseract_text, paddle.text, tesseract_conf,
                                       paddle.conf),
                        Append(tess_results, PaddleEntry(paddle)), "ensemble")

\* _run_ocr_with_paddleocr_fallback once PaddleOCR has read the image
FallbackWithPaddle(cfg, tesseract_text, tess_results, tesseract_conf, paddle) ==
    IF paddle.raises THEN FallbackReturn(tesseract_text, tess_results, "error")
    ELSE IF Len(paddle.text) = 0
    THEN FallbackReturn(tesseract_text, tess_results, "paddleocr_empty")
    ELSE IF cfg.enable_ensemble_voting
         THEN FallbackReturn(_ensemble_vote(cfg, tesseract_text, paddle.text, tesseract_conf,
                                            paddle.conf),
                             Append(tess_results, PaddleEntry(paddle)), "ensemble")
    ELSE IF paddle.conf > tesseract_conf
         THEN FallbackReturn(paddle.text, Append(tess_results, PaddleEntry(paddle)),
                             "paddleocr_won")
         ELSE FallbackReturn(tesseract_text, Append(tess_results, PaddleEntry(paddle)),
                             "tesseract_won")

\* FallbackChecker.should_fallback without per-character data
should_fallback(cfg, text, confidence) ==
    IF Len(text) = 0 THEN TRUE
    ELSE \/ cfg.enable_pattern_check /\ ~ MatchesHeaderPattern(text)
         \/ confidence < cfg.tesseract_confidence_threshold
         \/ \E i \in 1..Len(text) : text[i] \notin cfg.character_whitelist

\* _run_ocr_with_paddleocr_fallback once the fallback is wanted; engine tells whether
\* _get_paddleocr_engine returns an engine
FallbackWanted(cfg, engine, tesseract_text, tess_results, tesseract_conf, paddle) ==
    IF ~ should_fallback(cfg, tesseract_text, tesseract_conf)
    THEN FallbackReturn(tesseract_text, tess_results, "not_needed")
    ELSE IF ~ engine
    THEN FallbackReturn(tesseract_text, tess_results, "paddleocr_unavailable")
    ELSE FallbackWithPaddle(cfg, tesseract_text, tess_results, tesseract_conf, paddle)

\* OCRPipeline._run_ocr_with_paddleocr_fallback
_run_ocr_with_paddleocr_fallback(cfg, engine, tesseract_text, tess_results, paddle) ==
    IF ~ cfg.enable_paddleocr_fallback
    THEN FallbackReturn(tesseract_text, tess_results, "disabled")
    ELSE IF validate_and_score(cfg, tesseract_text).score >= cfg.score_threshold_for_escalation
    THEN FallbackReturn(tesseract_text, tess_results, "not_needed")
    ELSE FallbackWanted(cfg, engine, tesseract_text, tess_results,
                        _calculate_tesseract_confidence(tess_results), paddle)

\* the end of extract_text_with_adaptive_rendering: re-score if the fallback was used
AfterFallback(cfg, best_text, fallback) ==
    IF ~ cfg.enable_paddleocr_fallback THEN best_text
    ELSE IF fallback.info \in {"not_needed", "disabled"} THEN fallback.text
    ELSE validate_and_score(cfg, fallback.text).text

\* OCRPipeline.extract_text_with_adaptive_rendering without Tesseract
extract_text_with_adaptive_rendering(cfg, engine, paddle, best) ==
    AfterFallback(cfg, best.text,
                  _run_ocr_with_paddleocr_fallback(cfg, engine, best.text,
                                                   TesseractNotAvailable.method_results,
                                                   paddle))

\* the direct-text branch of _extract_header_from_page accepts the text
DirectAccepted(cfg, direct_text) ==
    /\ Len(direct_text) > 0
    /\ is_strict_header(cfg, OrElse(validate_and_score(cfg, direct_text).text, direct_text))
    /\ validate_and_score(cfg, direct_text).score > 0

\* PDFTextExtractorV3._extract_header_from_page: header text, confidence score, method
OcrHeader(cfg, text) ==
    IF Len(text) > 0
    THEN [text |-> text, confidence_score |-> validate_and_score(cfg, text).score,
          method |-> "tesseract"]
    ELSE [text |-> text, confidence_score |-> 0, method |-> "unknown"]

_extract_header_from_page(cfg, engine, input) ==
    IF DirectAccepted(cfg, input.direct_text)
    THEN [text |-> validate_and_score(cfg, input.direct_text).text,
          confidence_score |-> validate_and_score(cfg, input.direct_text).score,
          method |-> "direct"]
    ELSE OcrHeader(cfg,
             extract_text_with_adaptive_rendering(cfg, engine, input.paddle,
                 ScaleLoop(cfg, RenderScales(cfg), 1, TesseractNotAvailable,
                           [score |-> -1, text |-> NoText])))

\* variant: every page is recorded by its score
RecordStatus_by_score(header) ==
    IF header.confidence_score >= 130 THEN "success" ELSE "low_confidence"

\* the status of the CSV record of a page
RecordStatus(header) ==
    IF Len(header.text) > 0
    THEN (IF header.confidence_score >= 130 THEN "success" ELSE "low_confidence")
    ELSE "error"

\* the CSV record of a page
CsvRecord(page_number, header) ==
    [ page_number |-> page_number,
      header_extracted |-> header.text,
      confidence_score |-> IF Len(header.text) > 0 THEN header.confidence_score ELSE 0,
      ocr_method |-> IF Len(header.text) > 0 THEN header.method ELSE "failed",
      status |-> RecordStatus(header) ]

\* PDFTextExtractorV3._build_code_ambiguity_flag, as a list of flags
_build_code_ambiguity_flag(cfg, header_text) ==
    IF inspect_code_ambiguity(cfg, header_text).is_ambiguous
    THEN << [name |-> "code_ambiguity",
             reason |-> inspect_code_ambiguity(cfg, header_text).code_segment] >>
    ELSE <<>>

(***************************************************************************)
(* State machine of the page loop of process_pdf on a host without         *)
(* Tesseract                                                               *)
(***************************************************************************)
MaxScanPages == 2

DirectTexts == {NoText, B_TW_UET_S18010794, AB_S1801079}

PaddleReading(text, conf, raises) == [text |-> text, conf |-> conf, raises |-> raises]

PaddleReadings ==
    {PaddleReading(NoText, 0, FALSE),
     PaddleReading(B_TW_UEI_S18010794 \o <<" ">>, 90, FALSE),
     PaddleReading(B_TW_UEI_S18010794 \o <<" ">>, 0, FALSE),
     PaddleReading(OnlyJunk, 50, FALSE),
     PaddleReading(NoText, 0, TRUE)}

NoFallbackConfig == [DefaultConfig EXCEPT !.enable_paddleocr_fallback = FALSE]
NoEnsembleConfig == [DefaultConfig EXCEPT !.enable_ensemble_voting = FALSE,
                                          !.adaptive_rendering = FALSE]
ExtractConfigs == {DefaultConfig, NoFallbackConfig, NoEnsembleConfig}

InitExtract ==
    /\ config \in ExtractConfigs
    /\ call = "process_pdf"
    /\ ValidatorIdle /\ SplitterIdle /\ OcrIdle
    /\ headers_in = <<>> /\ min_support = 0 /\ ret_info = NoInfo
    /\ AnchorIdle
    /\ tesseract_available = FALSE
    /\ paddle_available \in BOOLEAN
    /\ \E n \in 1..MaxScanPages :
          /\ total_pages = n
          /\ page_inputs \in [1..n -> [direct_text : DirectTexts, paddle : PaddleReadings]]
    /\ page_num = 1
    /\ pc = "extract"
    /\ split_results = <<>>
    /\ csv_records = <<>>
    /\ ComponentIdle

\* one iteration of the page loop
ExtractPageWithoutTesseract ==
    /\ pc = "extract"
    /\ ~ tesseract_available
    /\ page_num <= total_pages
    /\ \E header \in {_extract_header_from_page(config, paddle_available,
                                                page_inputs[page_num])} :
          /\ page_headers' = IF Len(header.text) > 0
                             THEN Append(page_headers, <<page_num - 1, header.text>>)
                             ELSE page_headers
          /\ page_quality_flags' = IF Len(header.text) > 0
                                   THEN Append(page_quality_flags,
                                               _build_code_ambiguity_flag(config, header.text))
                                   ELSE page_quality_flags
          /\ csv_records' = Append(csv_records, CsvRecord(page_num, header))
    /\ page_num' = page_num + 1
    /\ pc' = IF page_num = total_pages THEN "rescue" ELSE "extract"
    /\ UNCHANGED <<config, call, ValidatorVars, groups_in, initial_groups, ret_groups,
                   total_pages, split_results, OcrVars, headers_in, min_support, ret_info,
                   updated_headers, updates, rescue_pick, rescue_calls,
                   tesseract_available, paddle_available, page_inputs, ComponentVars>>

NextExtract == ExtractPageWithoutTesseract

SpecExtract == InitExtract /\ [][NextExtract]_vars

\* pages the loop has gone through
ProcessedPages == 1..Len(csv_records)

\* the direct text of page k was not accepted: its header came from the OCR pipeline
NoAcceptedDirectText(k) == csv_records[k].ocr_method # "direct"

\* the loop recorded every page it went through, in order, and goes on to the next
LoopContinues ==
    /\ Len(csv_records) = page_num - 1
    /\ \A k \in ProcessedPages : csv_records[k].page_number = k
    /\ pc = (IF page_num > total_pages THEN "rescue" ELSE "extract")

\* the record of page k is that of an unreadable page
ReportedUnreadable(k) ==
    /\ csv_records[k].header_extracted = NoText
    /\ csv_records[k].status = "error"
    /\ \A i \in 1..Len(page_headers) : page_headers[i][1] # k - 1

\* PaddleOCR is enabled and available and read some text on page k
PaddleReadPage(k) ==
    /\ config.enable_paddleocr_fallback /\ paddle_available
    /\ ~ page_inputs[k].paddle.raises /\ Len(page_inputs[k].paddle.text) > 0

\* C20 (as stated): without Tesseract every page with no accepted direct text yields an
\* empty header and is reported unreadable with status error, in every configuration,
\* and the job continues with the remaining pages.
C20_UnreadableWithoutTesseract ==
    ~ tesseract_available =>
        /\ LoopContinues
        /\ \A k \in ProcessedPages : NoAcceptedDirectText(k) => ReportedUnreadable(k)

\* C20 (amended): without Tesseract a page with no accepted direct text is reported
\* unreadable unless the PaddleOCR fallback is enabled, available and read a text; a
\* page is recorded with status error exactly when its header is empty, and the job
\* continues with the remaining pages.
C20_UnreadableUnlessPaddleReads ==
    ~ tesseract_available =>
        /\ LoopContinues
        /\ \A k \in ProcessedPages :
              /\ (NoAcceptedDirectText(k) /\ ~ PaddleReadPage(k)) => ReportedUnreadable(k)
              /\ csv_records[k].status = "error" <=> csv_records[k].header_extracted = NoText
              /\ csv_records[k].header_extracted = NoText => ReportedUnreadable(k)

\* a page without direct text was left unreadable where PaddleOCR is disabled, and the
\* loop went on to a second page
C20_Witness ==
    /\ ~ tesseract_available /\ ~ config.enable_paddleocr_fallback
    /\ Len(csv_records) = 2
    /\ page_inputs[1].direct_text = NoText /\ Len(page_inputs[1].paddle.text) > 0
    /\ ReportedUnreadable(1)

(***************************************************************************)
(* State machine of the PaddleOCR fallback of the OCR pipeline             *)
(***************************************************************************)
\* paddleocr_engine.get_paddleocr_engine: the engine, or None where its constructor raises
get_paddleocr_engine(creation) == IF creation = "engine" THEN "engine" ELSE "None"

\* OCRPipeline._get_paddleocr_engine: the engine is created on first use and kept
_get_paddleocr_engine(cfg, engine, creation) ==
    IF engine = "None" /\ cfg.enable_paddleocr_fallback
    THEN get_paddleocr_engine(creation)
    ELSE engine

\* _run_ocr_with_paddleocr_fallback gets as far as asking for the engine
EngineAsked(cfg, text, tess_results) ==
    /\ cfg.enable_paddleocr_fallback
    /\ validate_and_score(cfg, text).score < cfg.score_threshold_for_escalation
    /\ should_fallback(cfg, text, _calculate_tesseract_confidence(tess_results))

\* what _run_ocr_methods hands over: the voted text and the method results
TesseractReading(text, score, confidence) ==
    [text |-> text,
     method_results |-> << [text |-> text, score |-> score, confidence |-> confidence] >>]

TesseractReadings ==
    {[text |-> TesseractNotAvailable.text,
      method_results |-> TesseractNotAvailable.method_results],
     TesseractReading(OnlyJunk, 0, 40),
     TesseractReading(AB_S1801079, 25, 95),
     TesseractReading(B_TW_UET_S18010794, 202, 95)}

EngineCreations == {"engine", "import_error", "error"}

InitFallback ==
    /\ config \in ExtractConfigs
    /\ call = "_run_ocr_with_paddleocr_fallback"
    /\ ValidatorIdle /\ SplitterIdle /\ ProcessIdle
    /\ psm_idx = 0 /\ method_idx = 0 /\ attempts = 0 /\ invocations = 0
    /\ early_exit = FALSE
    /\ freq_ratio = <<0, 1>>
    /\ headers_in = <<>> /\ min_support = 0 /\ ret_info = NoInfo
    /\ AnchorIdle
    /\ tesseract_available = TRUE /\ paddle_available = FALSE
    /\ page_inputs = <<>> /\ csv_records = <<>>
    /\ \E reading \in TesseractReadings :
          tesseract_text_in = reading.text /\ method_results = reading.method_results
    /\ paddle_reading \in PaddleReadings
    /\ engine_creation \in EngineCreations
    /\ paddleocr_engine = "None"
    /\ fallback_ret = NoInfo
    /\ NamingIdle /\ ServiceIdle

\* one call of _run_ocr_with_paddleocr_fallback
RunOcrWithPaddleocrFallback ==
    /\ fallback_ret = NoInfo
    /\ \E engine \in {IF EngineAsked(config, tesseract_text_in, method_results)
                       THEN _get_paddleocr_engine(config, paddleocr_engine, engine_creation)
                       ELSE paddleocr_engine} :
          /\ paddleocr_engine' = engine
          /\ fallback_ret' = _run_ocr_with_paddleocr_fallback(config, engine = "engine",
                                 tesseract_text_in, method_results, paddle_reading)
    /\ UNCHANGED <<config, call, ValidatorVars, SplitterVars, ProcessVars, OcrVars,
                   headers_in, min_support, ret_info, AnchorVars,
                   tesseract_available, paddle_available, page_inputs, csv_records,
                   tesseract_text_in, paddle_reading, engine_creation, NamingVars,
                   ServiceVars>>

\* the pipeline is handed the next image: another reading of Tesseract and of PaddleOCR
NextImage ==
    /\ fallback_ret # NoInfo
    /\ \E reading \in TesseractReadings :
          tesseract_text_in' = reading.text /\ method_results' = reading.method_results
    /\ paddle_reading' \in PaddleReadings
    /\ engine_creation' \in EngineCreations
    /\ fallback_ret' = NoInfo
    /\ UNCHANGED <<config, call, ValidatorVars, SplitterVars, ProcessVars,
                   psm_idx, method_idx, attempts, invocations, early_exit, freq_ratio,
                   headers_in, min_support, ret_info, AnchorVars,
                   tesseract_available, paddle_available, page_inputs, csv_records,
                   paddleocr_engine, NamingVars, ServiceVars>>

NextFallback == RunOcrWithPaddleocrFallback \/ NextImage

SpecFallback == InitFallback /\ [][NextFallback]_vars

\* the secondary engine did not deliver: it is disabled, there is no engine, or its
\* reading is empty or an exception
SecondaryUnavailable ==
    \/ ~ config.enable_paddleocr_fallback
    \/ paddleocr_engine = "None"
    \/ Len(paddle_reading.text) = 0
    \/ paddle_reading.raises

PrimaryKept ==
    /\ fallback_ret.text = tesseract_text_in
    /\ fallback_ret.method_results = method_results

\* C21: whenever the secondary engine is disabled, cannot be created, returns empty text
\* or raises, _run_ocr_with_paddleocr_fallback returns exactly the primary text and
\* method results it was given.
C21_PrimaryKeptWhenSecondaryUnavailable ==
    (fallback_ret # NoInfo /\ SecondaryUnavailable) => PrimaryKept

\* PaddleOCR raised on a page Tesseract had read poorly, and the poor reading was kept
C21_Witness ==
    /\ fallback_ret # NoInfo
    /\ fallback_ret.info = "error"
    /\ tesseract_text_in = AB_S1801079
    /\ PrimaryKept

(***************************************************************************)
(* State machine of the per-scale vote of _run_ocr_methods                 *)
(***************************************************************************)
MaxVoteResults == 3

B_TW_UET == <<"B", "-", "T", "W", "-", "U", "E", "T">>
B_TW_UET_S1801 == B_TW_UET \o <<"-", "S", "1", "8", "0", "1">>

VoteTexts == {B_TW_UET, B_TW_UET_S1801, B_E_UUY_R4092527, B_E_UUY_R40925274}
VoteConfidences == {9, 30}

\* what the methods of one scale returned before the vote
VoteReadings(cfg) == {_method(cfg, text, confidence) : text \in VoteTexts,
                                                       confidence \in VoteConfidences}

InitVote ==
    /\ config = DefaultConfig
    /\ call = "_run_ocr_methods"
    /\ ValidatorIdle /\ SplitterIdle
    /\ total_pages = 0 /\ page_num = 0 /\ split_results = <<>>
    /\ pc = "vote"
    /\ \E n \in 1..MaxVoteResults :
          /\ method_results \in [1..n -> VoteReadings(config)]
          /\ psm_idx = 1 /\ method_idx = n /\ attempts = n /\ invocations = n
    /\ early_exit = FALSE /\ freq_ratio = <<0, 1>>
    /\ CodeIdle

NextVote == Vote

SpecVote == InitVote /\ [][NextVote]_vars

\* the candidates of the vote and the one whose text was returned
Candidates == scored_results(config, results(method_results))
Returned(c) == ret_text = (IF c.score > 0 THEN c.corrected ELSE c.text)

\* comparisons of the weights 0.7 * score + 0.3 * average confidence of two candidates
LighterThan(d, c) == Weighted10(d) * c.frequency < Weighted10(c) * d.frequency
SameWeight(d, c) == Weighted10(d) * c.frequency = Weighted10(c) * d.frequency

\* C24 (as stated): the vote returns the candidate of greatest weight, and among
\* candidates of equal weight the one more methods returned.
C24_GreatestWeightThenFrequency ==
    pc = "done" =>
        \E c \in Candidates :
            /\ Returned(c)
            /\ \A d \in Candidates :
                  \/ LighterThan(d, c)
                  \/ SameWeight(d, c) /\ d.frequency <= c.frequency

\* C24 (amended): the vote returns the candidate of greatest weight; among candidates of
\* equal weight the one of higher structural score, and among those of equal weight and
\* score the one more methods returned.
C24_GreatestWeightThenScoreThenFrequency ==
    pc = "done" =>
        \E c \in Candidates :
            /\ Returned(c)
            /\ \A d \in Candidates :
                  \/ LighterThan(d, c)
                  \/ SameWeight(d, c) /\ d.score < c.score
                  \/ SameWeight(d, c) /\ d.score = c.score /\ d.frequency <= c.frequency

\* two candidates of equal weight and equal score, the returned one read by two methods
C24_Witness ==
    /\ pc = "done"
    /\ \E c, d \in Candidates :
          /\ Returned(c) /\ d # c
          /\ SameWeight(d, c) /\ d.score = c.score
          /\ c.frequency = 2 /\ d.frequency = 1

\* C27: in one call of _run_ocr_methods the number of preprocessing-method invocations
\* never exceeds max_ocr_attempts, whatever the methods return or raise.
C27_InvocationsWithinBudget ==
    call = "_run_ocr_methods" => invocations <= config.max_ocr_attempts

(***************************************************************************)
(* Single-page-outlier absorption in _apply_context_correction             *)
(***************************************************************************)
\* the returned group that holds the pages of input group i
Holder(i) ==
    CHOOSE k \in 1..Len(ret_groups) :
        ret_groups[k][1] <= groups_in[i][1] /\ groups_in[i][2] <= ret_groups[k][2]

\* input group i went into a group of another header
Absorbed(i) ==
    \E k \in 1..Len(ret_groups) :
        /\ ret_groups[k][1] <= groups_in[i][1] /\ groups_in[i][2] <= ret_groups[k][2]
        /\ ret_groups[k][3] # groups_in[i][3]

BetweenLongerNeighbors(i) ==
    /\ 1 < i /\ i < Len(groups_in)
    /\ Pages(groups_in[i - 1]) > 1
    /\ Pages(groups_in[i + 1]) > 1

GroupOf(i) ==
    CHOOSE g \in 1..Len(initial_groups) :
        initial_groups[g][1] <= page_headers[i][1] /\ page_headers[i][1] <= initial_groups[g][2]
FirstHeader(g) ==
    page_headers[CHOOSE i \in 1..Len(page_headers) :
                     page_headers[i][1] = initial_groups[g][1]][2]
ReportedHeader(g) == initial_groups[g][3]
Matches(x, y) == headers_match(config, x, y, config.header_similarity_threshold)

\* C25 (as stated): a page joins the current group iff its header matches the header the
\* group reports when it is closed; so every member page's header matches the reported
\* header of its group.
C25_MembersMatchReportedHeader ==
    SplitRan =>
        /\ \A i \in 1..(Len(page_headers) - 1) :
              GroupOf(i + 1) = GroupOf(i)
                  <=> Matches(page_headers[i + 1][2], ReportedHeader(GroupOf(i)))
        /\ \A i \in 1..Len(page_headers) :
              Matches(page_headers[i][2], ReportedHeader(GroupOf(i)))

\* C25 (amended): a page joins the current group iff its header matches the header of
\* the group's first page; so every later member page's header matches the header of
\* the first page of its group.
C25_MembersMatchFirstHeader ==
    SplitRan =>
        /\ \A i \in 1..(Len(page_headers) - 1) :
              GroupOf(i + 1) = GroupOf(i)
                  <=> Matches(page_headers[i + 1][2], FirstHeader(GroupOf(i)))
        /\ \A i \in 1..Len(page_headers) :
              page_headers[i][1] # initial_groups[GroupOf(i)][1]
                  => Matches(page_headers[i][2], FirstHeader(GroupOf(i)))

\* a group of three pages whose reported header is not the header of its first page and
\* does not match the header of its last page
C25_Witness ==
    /\ SplitRan
    /\ Len(page_headers) >= 3
    /\ GroupOf(1) = GroupOf(3)
    /\ ReportedHeader(GroupOf(1)) # FirstHeader(GroupOf(1))
    /\ ~ Matches(page_headers[3][2], ReportedHeader(GroupOf(1)))

(***************************************************************************)
(* Output filenames of PdfSplitter.split_pdf                               *)
(*                                                                         *)
(* A naming pattern is the list of its pieces: literal text and the fields *)
(* header, start, end, original, index that str.format fills in.           *)
(***************************************************************************)
DigitChar(d) ==
    CASE d = 0 -> "0" [] d = 1 -> "1" [] d = 2 -> "2" [] d = 3 -> "3" [] d = 4 -> "4"
      [] d = 5 -> "5" [] d = 6 -> "6" [] d = 7 -> "7" [] d = 8 -> "8" [] d = 9 -> "9"

\* str(n) and f"{n:02d}"
RECURSIVE Str(_)
Str(n) == IF n < 10 THEN <<DigitChar(n)>> ELSE Append(Str(n \div 10), DigitChar(n % 10))

Pad2(n) == IF n < 10 THEN <<"0">> \o Str(n) ELSE Str(n)

\* b.endswith(a)
EndsWith(b, a) ==
    Len(a) <= Len(b) /\ \A i \in 1..Len(a) : b[Len(b) - Len(a) + i] = a[i]

\* s.replace(old, new): every occurrence, left to right
RECURSIVE ReplaceAll(_, _, _)
ReplaceAll(s, old, new) ==
    IF Len(s) = 0 THEN s
    ELSE IF StartsWith(s, old) THEN new \o ReplaceAll(SubSeq(s, Len(old) + 1, Len(s)), old, new)
    ELSE <<s[1]>> \o ReplaceAll(Tail(s), old, new)

\* re.sub(r'[^\w\s-]', '', text)
IsWordSpaceOrHyphen(ch) ==
    IsAlphaChar(ch) \/ IsDigitChar(ch) \/ ch = "_" \/ ch \in Whitespace \/ ch = "-"

\* re.sub(r'[_-]+', '_', text)
RECURSIVE CollapseRuns(_, _, _)
CollapseRuns(s, i, out) ==
    IF i > Len(s) THEN out
    ELSE IF s[i] \in {"_", "-"}
         THEN (IF i > 1 /\ s[i - 1] \in {"_", "-"}
               THEN CollapseRuns(s, i + 1, out)
               ELSE CollapseRuns(s, i + 1, Append(out, "_")))
         ELSE CollapseRuns(s, i + 1, Append(out, s[i]))

\* text.strip('_-')
RECURSIVE StripSeparators(_)
StripSeparators(s) ==
    IF Len(s) = 0 THEN s
    ELSE IF s[1] \in {"_", "-"} THEN StripSeparators(Tail(s))
    ELSE IF s[Len(s)] \in {"_", "-"} THEN StripSeparators(SubSeq(s, 1, Len(s) - 1))
    ELSE s

unnamed == <<"u", "n", "n", "a", "m", "e", "d">>

DotPdf == <<".", "p", "d", "f">>

\* text[:max_filename_length]
Truncate(cfg, text) == SubSeq(text, 1, Min2(cfg.max_filename_length, Len(text)))

\* the steps of _sanitize_filename after the emptiness test
SanitizeSteps(cfg, text) ==
    StripSeparators(
        Truncate(cfg,
            CollapseRuns(ReplaceAll(IF cfg.remove_special_chars
                                    THEN SelectSeq(text, IsWordSpaceOrHyphen)
                                    ELSE text,
                                    <<" ">>, cfg.replace_spaces_with), 1, <<>>)))

\* PdfSplitter._sanitize_filename
_sanitize_filename(cfg, text) ==
    IF Len(text) = 0 THEN unnamed
    ELSE IF Len(SanitizeSteps(cfg, text)) = 0 THEN unnamed
    ELSE SanitizeSteps(cfg, text)

\* split_naming_pattern.format(header=..., start=..., end=..., original=..., index=...)
RECURSIVE Format(_, _, _)
Format(pattern, fields, k) ==
    IF k > Len(pattern) THEN <<>>
    ELSE (IF "field" \in DOMAIN pattern[k] THEN fields[pattern[k].field]
          ELSE pattern[k].literal) \o Format(pattern, fields, k + 1)

\* the stem of the source PDF's name
original_name == <<"s", "c", "a", "n">>

\* .pdf added where the formatted name lacks it
WithPdfSuffix(name) == IF EndsWith(name, DotPdf) THEN name ELSE name \o DotPdf

\* base_filename of a group
BaseFilename(cfg, group, idx, safe_header) ==
    WithPdfSuffix(Format(cfg.split_naming_pattern,
                         [header |-> safe_header, start |-> Str(group[1] + 1),
                          end |-> Str(group[2] + 1), original |-> original_name,
                          index |-> Str(idx)], 1))

\* the loop of split_pdf over two or more groups: filename_counter counts the uses of a
\* sanitized header, a repeated one gets _NN before .pdf
RECURSIVE FilenamesFrom(_, _, _, _, _)
GroupFilename(cfg, groups, idx, filename_counter, filenames, safe_header) ==
    IF safe_header \in DOMAIN filename_counter
    THEN FilenamesFrom(cfg, groups, idx + 1,
             MapPut(filename_counter, safe_header, filename_counter[safe_header] + 1),
             Append(filenames,
                    ReplaceAll(BaseFilename(cfg, groups[idx], idx, safe_header), DotPdf,
                               <<"_">> \o Pad2(filename_counter[safe_header] + 1) \o DotPdf)))
    ELSE FilenamesFrom(cfg, groups, idx + 1, MapPut(filename_counter, safe_header, 1),
             Append(filenames, BaseFilename(cfg, groups[idx], idx, safe_header)))

FilenamesFrom(cfg, groups, idx, filename_counter, filenames) ==
    IF idx > Len(groups) THEN filenames
    ELSE GroupFilename(cfg, groups, idx, filename_counter, filenames,
                       _sanitize_filename(cfg, groups[idx][3]))

\* the filenames split_pdf hands to _create_pdf_subset: one for the whole PDF when there
\* is at most one group, else one per group
SplitFilenames(cfg, groups, pages) ==
    IF Len(groups) <= 1
    THEN << BaseFilename(cfg, <<0, pages - 1>>, 1,
                         _sanitize_filename(cfg, IF Len(groups) = 1 THEN groups[1][3]
                                                 ELSE UNKNOWN)) >>
    ELSE FilenamesFrom(cfg, groups, 1, <<>>, <<>>)

MaxSplitPages == 3

B_TW_UET_02 == B_TW_UET \o <<"-", "0", "2">>

SplitHeaders == {B_TW_UET, B_TW_UET_02, B_TW_UET_S18010794, B_E_UUY_R40925274}

HeaderPatternConfig == [DefaultConfig EXCEPT !.split_naming_pattern = << [field |-> "header"] >>]

OriginalPatternConfig ==
    [DefaultConfig EXCEPT !.split_naming_pattern = << [field |-> "original"],
                                                      [literal |-> <<"_", "s", "p", "l", "i", "t">>] >>]

IndexPatternConfig ==
    [DefaultConfig EXCEPT !.split_naming_pattern = << [field |-> "header"], [literal |-> <<"_">>],
                                                      [field |-> "index"], [literal |-> DotPdf] >>]

NamingConfigs == {DefaultConfig, HeaderPatternConfig, OriginalPatternConfig, IndexPatternConfig}

InitSplit ==
    /\ config \in NamingConfigs
    /\ call = "none"
    /\ ValidatorIdle
    /\ groups_in = <<>> /\ initial_groups = <<>> /\ ret_groups = <<>>
    /\ \E n \in 2..MaxSplitPages :
          /\ total_pages = n
          /\ \E headers \in [1..n -> SplitHeaders] :
                page_headers = [i \in 1..n |-> <<i - 1, headers[i]>>]
    /\ page_num = 0 /\ pc = "idle" /\ split_results = <<>>
    /\ OcrIdle
    /\ headers_in = <<>> /\ min_support = 0 /\ ret_info = NoInfo
    /\ AnchorIdle
    /\ tesseract_available = TRUE /\ paddle_available = FALSE
    /\ page_inputs = <<>> /\ csv_records = <<>>
    /\ FallbackIdle /\ ServiceIdle
    /\ output_filenames = <<>>

\* split_pdf with every subset written to the path asked for
SplitPdfIntoFiles ==
    /\ call = "none"
    /\ config.enable_pdf_splitting /\ Len(page_headers) > 0
    /\ call' = "split_pdf"
    /\ \E groups \in {_detect_header_groups(config, page_headers)} :
          /\ ret_groups' = groups
          /\ output_filenames' = SplitFilenames(config, groups, total_pages)
    /\ UNCHANGED <<config, ValidatorVars, page_headers, groups_in, initial_groups,
                   ProcessVars, OcrVars, headers_in, min_support, ret_info, AnchorVars,
                   tesseract_available, paddle_available, page_inputs, csv_records,
                   FallbackVars, ServiceVars>>

NextSplit == SplitPdfIntoFiles

SpecSplit == InitSplit /\ [][NextSplit]_vars

\* C30: within one split_pdf call that produces two or more groups, no two groups are
\* given the same output filename, whatever the naming pattern and the group headers.
C30_GroupFilenamesDistinct ==
    (call = "split_pdf" /\ Len(ret_groups) >= 2) =>
        \A i, j \in 1..Len(output_filenames) :
            i # j => output_filenames[i] # output_filenames[j]

(***************************************************************************)
(* PdfSplitter._create_pdf_subset and the output folder                    *)
(*                                                                         *)
(* The call is cut at its file operations; between two of them another     *)
(* process may lock or release the target, lock or release the temporary   *)
(* file, or remove the temporary file.  A locked file makes os.replace and *)
(* unlink raise PermissionError.  The alternates stem_locked.pdf,          *)
(* stem_locked_1.pdf, ... are numbered 0, 1, ...; the same for stem_regen. *)
(***************************************************************************)
MaxAlternates == 2

\* tenths of a second
retry_delays == <<0, 2, 6>>

\* every variable of the extraction pipeline at rest
PipelineRest ==
    /\ call = "none"
    /\ ValidatorIdle /\ SplitterIdle /\ ProcessIdle /\ OcrIdle
    /\ headers_in = <<>> /\ min_support = 0 /\ ret_info = NoInfo
    /\ AnchorIdle
    /\ tesseract_available = TRUE /\ paddle_available = FALSE
    /\ page_inputs = <<>> /\ csv_records = <<>>
    /\ FallbackIdle /\ NamingIdle

PipelineIdle == config = DefaultConfig /\ PipelineRest

PipelineVars ==
    <<config, call, ValidatorVars, SplitterVars, ProcessVars, OcrVars, headers_in, min_support,
      ret_info, AnchorVars, tesseract_available, paddle_available, page_inputs, csv_records,
      FallbackVars, NamingVars>>

\* a get_unique_output_path that returns the base name whether or not it exists
get_unique_output_path_base(names) == 0

\* OutputOrganizer.get_unique_output_path: the base name when it is free, else the first
\* free counter from 1 on
get_unique_output_path(names) ==
    IF 0 \notin names THEN 0
    ELSE CHOOSE k \in 1..(Cardinality(names) + 1) :
            k \notin names /\ \A j \in 1..(k - 1) : j \in names

ReturnedPath(path, index) == [path |-> path, index |-> index]

ReturnedNone == ReturnedPath("None", 0)

InitSubset ==
    /\ PipelineIdle
    /\ subset_call = NoSubsetCall
    /\ LoggerIdle
    /\ \E exists, locked, full \in BOOLEAN :
       \E locked_names, regen_names \in SUBSET (0..(MaxAlternates - 1)) :
          /\ locked => exists
          /\ file_system = [NoFiles EXCEPT !.target_exists = exists, !.target_locked = locked,
                                           !.locked_names = locked_names,
                                           !.regen_names = regen_names, !.disk_full = full]

\* the except branch: log and return None, through the finally block
Raise(c) == [c EXCEPT !.pc = "finally", !.raised = TRUE, !.ret = ReturnedNone]

\* tempfile.mkstemp and new_doc.save
SaveTempFile ==
    /\ subset_call.pc = "idle"
    /\ file_system' = [file_system EXCEPT !.temp = "present"]
    /\ subset_call' = IF file_system.disk_full THEN Raise(subset_call)
                      ELSE [subset_call EXCEPT !.pc = "saved"]
    /\ UNCHANGED <<PipelineVars, LoggerVars>>

\* if not temp_path.exists(): raise FileNotFoundError
CheckTempFile ==
    /\ subset_call.pc = "saved"
    /\ subset_call' = IF file_system.temp = "present"
                      THEN [subset_call EXCEPT !.pc = "replace"]
                      ELSE Raise(subset_call)
    /\ UNCHANGED <<file_system, PipelineVars, LoggerVars>>

\* one turn of the loop over retry_delays: sleep, then os.replace(temp_path, target)
ReplaceAttempt ==
    /\ subset_call.pc = "replace"
    /\ \E c \in {[subset_call EXCEPT !.attempts = @ + 1,
                                     !.slept = @ + retry_delays[subset_call.attempts + 1]]} :
          IF file_system.temp # "present"
          THEN \* FileNotFoundError: break
               /\ subset_call' = [c EXCEPT !.pc = "after_loop"]
               /\ UNCHANGED file_system
          ELSE IF file_system.temp_locked \/ file_system.target_locked
          THEN \* PermissionError: continue
               /\ subset_call' = [c EXCEPT !.errors = @ + 1,
                                           !.pc = IF c.attempts = Len(retry_delays)
                                                  THEN "after_loop" ELSE "replace"]
               /\ UNCHANGED file_system
          ELSE /\ file_system' = [file_system EXCEPT !.temp = "none", !.target_exists = TRUE]
               /\ subset_call' = [c EXCEPT !.pc = "finally", !.replaced = TRUE,
                                           !.flow = "replaced",
                                           !.ret = ReturnedPath("target", 0)]
    /\ UNCHANGED <<PipelineVars, LoggerVars>>

\* after the loop: regenerate the subset when the temporary file is gone, else pick the
\* alternate name
AfterLoop ==
    /\ subset_call.pc = "after_loop"
    /\ IF file_system.temp # "present"
       THEN IF file_system.disk_full
            THEN /\ subset_call' = Raise([subset_call EXCEPT !.flow = "regen"])
                 /\ UNCHANGED file_system
            ELSE IF file_system.target_exists
            THEN \E k \in {get_unique_output_path(file_system.regen_names)} :
                    /\ file_system' = [file_system EXCEPT !.regen_names = @ \cup {k}]
                    /\ subset_call' = [subset_call EXCEPT !.pc = "finally", !.flow = "regen",
                                           !.names_seen = file_system.regen_names,
                                           !.ret = ReturnedPath("regen", k)]
            ELSE /\ file_system' = [file_system EXCEPT !.target_exists = TRUE]
                 /\ subset_call' = [subset_call EXCEPT !.pc = "finally", !.flow = "regen",
                                        !.ret = ReturnedPath("target", 0)]
       ELSE /\ subset_call' = [subset_call EXCEPT !.pc = "fallback", !.flow = "fallback",
                                   !.names_seen = file_system.locked_names,
                                   !.fallback_target =
                                       get_unique_output_path(file_system.locked_names)]
            /\ UNCHANGED file_system
    /\ UNCHANGED <<PipelineVars, LoggerVars>>

\* the final fallback: move the temporary file to the alternate name, or regenerate there
FallbackSave ==
    /\ subset_call.pc = "fallback"
    /\ IF file_system.temp = "present"
       THEN IF file_system.temp_locked
            THEN /\ subset_call' = Raise(subset_call)
                 /\ UNCHANGED file_system
            ELSE /\ file_system' = [file_system EXCEPT !.temp = "none",
                                        !.locked_names = @ \cup {subset_call.fallback_target}]
                 /\ subset_call' = [subset_call EXCEPT !.pc = "finally",
                                        !.ret = ReturnedPath("locked",
                                                             subset_call.fallback_target)]
       ELSE IF file_system.disk_full
            THEN /\ subset_call' = Raise(subset_call)
                 /\ UNCHANGED file_system
            ELSE /\ file_system' = [file_system EXCEPT
                                        !.locked_names = @ \cup {subset_call.fallback_target}]
                 /\ subset_call' = [subset_call EXCEPT !.pc = "finally",
                                        !.ret = ReturnedPath("locked",
                                                             subset_call.fallback_target)]
    /\ UNCHANGED <<PipelineVars, LoggerVars>>

\* the finally block: unlink the temporary file when it exists, errors swallowed
Finally ==
    /\ subset_call.pc = "finally"
    /\ IF file_system.temp = "present" /\ ~file_system.temp_locked
       THEN file_system' = [file_system EXCEPT !.temp = "none"]
       ELSE UNCHANGED file_system
    /\ subset_call' = [subset_call EXCEPT !.pc = "done",
                           !.unlink_failed = (file_system.temp = "present"
                                              /\ file_system.temp_locked)]
    /\ UNCHANGED <<PipelineVars, LoggerVars>>

Running == subset_call.pc \notin {"idle", "done"}

\* another process opens or closes the target file
LockTarget ==
    /\ Running /\ file_system.target_exists /\ ~file_system.target_locked
    /\ file_system' = [file_system EXCEPT !.target_locked = TRUE]
    /\ UNCHANGED <<subset_call, PipelineVars, LoggerVars>>

UnlockTarget ==
    /\ Running /\ file_system.target_locked
    /\ file_system' = [file_system EXCEPT !.target_locked = FALSE]
    /\ UNCHANGED <<subset_call, PipelineVars, LoggerVars>>

\* another process opens or closes the temporary file
LockTemp ==
    /\ Running /\ file_system.temp = "present" /\ ~file_system.temp_locked
    /\ file_system' = [file_system EXCEPT !.temp_locked = TRUE]
    /\ UNCHANGED <<subset_call, PipelineVars, LoggerVars>>

UnlockTemp ==
    /\ Running /\ file_system.temp_locked
    /\ file_system' = [file_system EXCEPT !.temp_locked = FALSE]
    /\ UNCHANGED <<subset_call, PipelineVars, LoggerVars>>

\* the temporary file disappears (external cleanup)
RemoveTemp ==
    /\ Running /\ file_system.temp = "present" /\ ~file_system.temp_locked
    /\ file_system' = [file_system EXCEPT !.temp = "gone"]
    /\ UNCHANGED <<subset_call, PipelineVars, LoggerVars>>

NextSubset ==
    \/ SaveTempFile \/ CheckTempFile \/ ReplaceAttempt \/ AfterLoop \/ FallbackSave \/ Finally
    \/ LockTarget \/ UnlockTarget \/ LockTemp \/ UnlockTemp \/ RemoveTemp

SpecSubset == InitSubset /\ [][NextSubset]_vars

RECURSIVE SumOfDelays(_)
SumOfDelays(n) == IF n = 0 THEN 0 ELSE SumOfDelays(n - 1) + retry_delays[n]

Returns == subset_call.pc = "done"

\* at most three replace attempts, after delays of 0, 0.2 and 0.6 seconds
ThreeAttemptsWithBackoff ==
    /\ subset_call.attempts <= Len(retry_delays)
    /\ subset_call.slept = SumOfDelays(subset_call.attempts)

EveryAttemptLocked == subset_call.errors = Len(retry_delays)

ReturnsLockedAlternate ==
    /\ subset_call.ret.path = "locked"
    /\ subset_call.ret.index \notin subset_call.names_seen

MaxLogCalls == 3

MaxQueueSize == 2

MaxThreshold == 2

MaxTicks == 2

MaxFailureCount == 2

MaxSends == 2

\* the clock moves by a second or by the breaker's timeout
TickSteps == {1, BreakerTimeout}

\* what requests.post can do: a response with status 200 or another status, or raise
PostOutcomes == {"200", "500", "Timeout", "ConnectionError", "Exception"}

\* time.time() - self.last_failure_time > self.timeout
Elapsed(b, now) == now - b.last_failure_time[1] > b.timeout

\* a circuit that lets requests through again once the timeout is reached
is_open_at_timeout(b, now) ==
    IF b.state = "OPEN"
    THEN IF now - b.last_failure_time[1] >= b.timeout
         THEN [breaker |-> [b EXCEPT !.state = "HALF_OPEN"], result |-> FALSE]
         ELSE [breaker |-> b, result |-> TRUE]
    ELSE [breaker |-> b, result |-> FALSE]

\* CircuitBreaker.is_open: the breaker after the call and the value returned
is_open(b, now) ==
    IF b.state = "OPEN"
    THEN IF Elapsed(b, now)
         THEN [breaker |-> [b EXCEPT !.state = "HALF_OPEN"], result |-> FALSE]
         ELSE [breaker |-> b, result |-> TRUE]
    ELSE [breaker |-> b, result |-> FALSE]

\* CircuitBreaker.record_success
record_success(b) ==
    [b EXCEPT !.state = IF @ = "HALF_OPEN" THEN "CLOSED" ELSE @, !.failure_count = 0]

\* CircuitBreaker.record_failure
record_failure(b, now) ==
    [b EXCEPT !.failure_count = @ + 1,
              !.last_failure_time = <<now>>,
              !.state = IF @ = "HALF_OPEN" THEN "OPEN"
                        ELSE IF b.failure_count + 1 >= b.failure_threshold THEN "OPEN"
                        ELSE @]

\* a put that waits for a free slot
put_waiting(q, item) ==
    IF Len(q.items) >= q.maxsize
    THEN [queue |-> q, outcome |-> "blocks"]
    ELSE [queue |-> [q EXCEPT !.items = Append(@, item)], outcome |-> "queued"]

\* queue.Queue.put_nowait: the queue after the call and whether queue.Full was raised
put_nowait(q, item) ==
    IF Len(q.items) >= q.maxsize
    THEN [queue |-> q, outcome |-> "Full"]
    ELSE [queue |-> [q EXCEPT !.items = Append(@, item)], outcome |-> "queued"]

\* the record of a call on the breaker: the state it found, whether the timeout had
\* elapsed, what it returned, and the failures recorded since the last success
Called(op, b, result, now) ==
    [op |-> op, before |-> b.state, result |-> result,
     elapsed |-> (b.last_failure_time # <<>> /\ Elapsed(b, now)),
     failures |-> IF op = "record_failure" THEN breaker_call.failures + 1
                  ELSE IF op = "record_success" THEN 0
                  ELSE breaker_call.failures]

AsyncConfigs ==
    {[DefaultConfig EXCEPT !.api_queue_size = q, !.circuit_breaker_threshold = t] :
        q \in 1..MaxQueueSize, t \in 1..MaxThreshold}

BlockingConfigs ==
    {[DefaultConfig EXCEPT !.api_log_async = FALSE, !.circuit_breaker_threshold = t] :
        t \in 1..MaxThreshold}

InitLogger ==
    /\ config \in AsyncConfigs
    /\ PipelineRest /\ SubsetIdle /\ LoggerBuilt
    /\ log_queue = Queue(config.api_queue_size)
    /\ breaker = CircuitBreaker(config.circuit_breaker_threshold, BreakerTimeout)

\* log_extraction in async mode: build the payload, put_nowait, count a drop when full
LogExtraction ==
    /\ config.api_log_async
    /\ producer.pc = "idle" /\ producer.calls < MaxLogCalls
    /\ \E put \in {put_nowait(log_queue, producer.calls + 1)} :
          /\ log_queue' = put.queue
          /\ producer' = [producer EXCEPT
                 !.calls = @ + 1, !.put = put.outcome, !.size_before = Len(log_queue.items),
                 !.loaded = stats.total_dropped,
                 !.pc = CASE put.outcome = "queued" -> "idle"
                          [] put.outcome = "Full" -> "drop_write"
                          [] OTHER -> "blocked"]
    /\ UNCHANGED <<stats, sender, shutdown_event, breaker, breaker_call, clock,
                   PipelineVars, SubsetVars>>

\* the write of self.total_dropped += 1 in log_extraction
ProducerCountsDrop ==
    /\ producer.pc = "drop_write"
    /\ stats' = [stats EXCEPT !.total_dropped = producer.loaded + 1]
    /\ producer' = [producer EXCEPT !.pc = "idle"]
    /\ UNCHANGED <<log_queue, sender, shutdown_event, breaker, breaker_call, clock,
                   PipelineVars, SubsetVars>>

\* shutdown: after its bounded wait, the event is set whatever is left in the queue
Shutdown ==
    /\ config.api_log_async
    /\ producer.pc = "idle" /\ ~shutdown_event
    /\ shutdown_event' = TRUE
    /\ UNCHANGED <<log_queue, stats, producer, sender, breaker, breaker_call, clock,
                   PipelineVars, SubsetVars>>

\* _worker: queue.get returns a payload
WorkerGet ==
    /\ config.api_log_async
    /\ sender.pc = "idle" /\ log_queue.items # <<>>
    /\ log_queue' = [log_queue EXCEPT !.items = Tail(@)]
    /\ sender' = [sender EXCEPT !.pc = "send"]
    /\ UNCHANGED <<stats, producer, shutdown_event, breaker, breaker_call, clock,
                   PipelineVars, SubsetVars>>

\* _worker: the loop ends once the event is set
WorkerStops ==
    /\ config.api_log_async
    /\ sender.pc = "idle" /\ shutdown_event
    /\ sender' = [sender EXCEPT !.pc = "stopped"]
    /\ UNCHANGED <<log_queue, stats, producer, shutdown_event, breaker, breaker_call, clock,
                   PipelineVars, SubsetVars>>

\* _send_to_api: is_open; when open read total_dropped, else count the send
SendChecksBreaker ==
    /\ sender.pc = "send"
    /\ \E r \in {is_open(breaker, clock.now)} :
       \E c \in {Called("is_open", breaker, r.result, clock.now)} :
          /\ breaker' = r.breaker
          /\ breaker_call' = c
          /\ IF r.result
             THEN /\ sender' = [sender EXCEPT !.pc = "drop_write", !.saw = c,
                                              !.loaded = stats.total_dropped]
                  /\ UNCHANGED stats
             ELSE /\ sender' = [sender EXCEPT !.pc = "post", !.saw = c]
                  /\ stats' = [stats EXCEPT !.total_sent = @ + 1]
    /\ UNCHANGED <<log_queue, producer, shutdown_event, clock, PipelineVars, SubsetVars>>

\* _send_to_api: the write of self.total_dropped += 1, and return
SendCountsDrop ==
    /\ sender.pc = "drop_write"
    /\ stats' = [stats EXCEPT !.total_dropped = sender.loaded + 1]
    /\ sender' = [sender EXCEPT !.pc = "idle"]
    /\ UNCHANGED <<log_queue, producer, shutdown_event, breaker, breaker_call, clock,
                   PipelineVars, SubsetVars>>

\* _send_to_api: requests.post and its outcome, every exception caught
SendPosts ==
    /\ sender.pc = "post"
    /\ \E outcome \in PostOutcomes :
          IF outcome = "200"
          THEN /\ stats' = [stats EXCEPT !.total_success = @ + 1]
               /\ breaker' = record_success(breaker)
               /\ breaker_call' = Called("record_success", breaker, FALSE, clock.now)
          ELSE /\ stats' = [stats EXCEPT !.total_failed = @ + 1]
               /\ breaker' = record_failure(breaker, clock.now)
               /\ breaker_call' = Called("record_failure", breaker, FALSE, clock.now)
    /\ sender' = [sender EXCEPT !.pc = "idle"]
    /\ UNCHANGED <<log_queue, producer, shutdown_event, clock, PipelineVars, SubsetVars>>

\* time passes; the breaker looks at the clock only while it is OPEN, and it enters OPEN
\* with last_failure_time = now, so only the time spent with the circuit open is kept
Tick ==
    /\ clock.ticks < MaxTicks
    /\ breaker.state = "OPEN"
    /\ \E d \in TickSteps : clock' = [now |-> clock.now + d, ticks |-> clock.ticks + 1]
    /\ UNCHANGED <<log_queue, stats, producer, sender, shutdown_event, breaker, breaker_call,
                   PipelineVars, SubsetVars>>

NextLogger ==
    \/ LogExtraction \/ ProducerCountsDrop \/ Shutdown
    \/ WorkerGet \/ WorkerStops
    \/ SendChecksBreaker \/ SendCountsDrop \/ SendPosts
    \/ Tick

SpecLogger == InitLogger /\ [][NextLogger]_vars

\* C23: in async mode log_extraction neither waits nor raises, whatever the queue, the
\* worker, the breaker and the network do: the payload goes into the queue when there is
\* room and is dropped when the queue is full, and the sending thread outlives every
\* failed send.
C23_LogExtractionNeverBlocksOrRaises ==
    /\ producer.pc \in {"idle", "drop_write"}
    /\ producer.put = "queued" => producer.size_before < log_queue.maxsize
    /\ producer.put = "Full" => producer.size_before = log_queue.maxsize
    /\ Len(log_queue.items) <= log_queue.maxsize
    /\ sender.pc \in {"idle", "send", "drop_write", "post", "stopped"}
    /\ (sender.pc = "stopped") => shutdown_event

\* a payload dropped on a full queue after a failed send opened the circuit and the
\* worker has stopped
C23_Witness ==
    /\ producer.put = "Full" /\ producer.pc = "idle"
    /\ stats.total_failed > 0 /\ breaker.state = "OPEN"
    /\ sender.pc = "stopped"

Quiescent ==
    /\ log_queue.items = <<>>
    /\ producer.pc = "idle"
    /\ sender.pc \in {"idle", "stopped"}

\* C29: once the queue is drained and no send is in flight, every log_extraction call is
\* counted once: calls = total_sent + total_dropped and total_sent = total_success +
\* total_failed.
C29_EveryPayloadCountedOnce ==
    Quiescent =>
        /\ producer.calls = stats.total_sent + stats.total_dropped
        /\ stats.total_sent = stats.total_success + stats.total_failed

InitBreaker ==
    /\ config \in BlockingConfigs
    /\ PipelineRest /\ SubsetIdle /\ LoggerBuilt
    /\ log_queue = Queue(0)
    /\ breaker = CircuitBreaker(config.circuit_breaker_threshold, BreakerTimeout)

\* log_extraction in blocking mode: the calling thread enters _send_to_api
BlockingLogExtraction ==
    /\ ~config.api_log_async
    /\ producer.calls < MaxSends /\ sender.pc = "idle"
    /\ producer' = [producer EXCEPT !.calls = @ + 1]
    /\ sender' = [sender EXCEPT !.pc = "send"]
    /\ UNCHANGED <<log_queue, stats, shutdown_event, breaker, breaker_call, clock,
                   PipelineVars, SubsetVars>>

\* calls on the breaker made by other threads that are inside _send_to_api
OtherIsOpen ==
    /\ ~config.api_log_async
    /\ \E r \in {is_open(breaker, clock.now)} :
          /\ breaker' = r.breaker
          /\ breaker_call' = Called("is_open", breaker, r.result, clock.now)
    /\ UNCHANGED <<log_queue, stats, producer, sender, shutdown_event, clock,
                   PipelineVars, SubsetVars>>

OtherRecordSuccess ==
    /\ ~config.api_log_async
    /\ breaker' = record_success(breaker)
    /\ breaker_call' = Called("record_success", breaker, FALSE, clock.now)
    /\ UNCHANGED <<log_queue, stats, producer, sender, shutdown_event, clock,
                   PipelineVars, SubsetVars>>

OtherRecordFailure ==
    /\ ~config.api_log_async
    /\ breaker.failure_count < MaxFailureCount
    /\ breaker' = record_failure(breaker, clock.now)
    /\ breaker_call' = Called("record_failure", breaker, FALSE, clock.now)
    /\ UNCHANGED <<log_queue, stats, producer, sender, shutdown_event, clock,
                   PipelineVars, SubsetVars>>

NextBreaker ==
    \/ BlockingLogExtraction
    \/ SendChecksBreaker \/ SendCountsDrop \/ SendPosts
    \/ OtherIsOpen \/ OtherRecordSuccess \/ OtherRecordFailure
    \/ Tick

SpecBreaker == InitBreaker /\ [][NextBreaker]_vars

StateChange(from, to) == breaker_call.before = from /\ breaker.state = to

\* C28: the breaker's state changes only from CLOSED to OPEN on the failure that brings
\* the failures since the last success to failure_threshold, from OPEN to HALF_OPEN on an
\* is_open call made more than timeout seconds after the last failure, from HALF_OPEN to
\* CLOSED on a success and from HALF_OPEN to OPEN on a failure; an is_open call on an OPEN
\* breaker whose timeout has not elapsed returns True, and the _send_to_api that made it
\* sends no request.
C28_BreakerTransitions ==
    /\ breaker_call.before # breaker.state =>
          \/ /\ StateChange("CLOSED", "OPEN")
             /\ breaker_call.op = "record_failure"
             /\ breaker_call.failures = breaker.failure_threshold
          \/ /\ StateChange("OPEN", "HALF_OPEN")
             /\ breaker_call.op = "is_open" /\ breaker_call.elapsed
          \/ /\ StateChange("HALF_OPEN", "CLOSED")
             /\ breaker_call.op = "record_success"
          \/ /\ StateChange("HALF_OPEN", "OPEN")
             /\ breaker_call.op = "record_failure"
    /\ (breaker_call.op = "is_open" /\ breaker_call.before = "OPEN" /\ ~breaker_call.elapsed)
          => (breaker_call.result /\ breaker.state = "OPEN")
    /\ (sender.saw.op = "is_open" /\ sender.saw.before = "OPEN" /\ ~sender.saw.elapsed)
          => sender.pc # "post"

\* the circuit has opened, let a request through after the timeout, and closed on its
\* success
C28_Witness ==
    /\ StateChange("HALF_OPEN", "CLOSED")
    /\ sender.saw.before = "OPEN" /\ sender.saw.elapsed
    /\ stats.total_success > 0 /\ stats.total_failed > 0

====
